---- MODULE Spec2Model ----
(***************************************************************************)
(* A model of psync.sync(): the tree scanner (_scandir), the lazy diff     *)
(* planner (_operations, a generator) and the operation executor (the for  *)
(* loop of sync with _copy, _move and _delete_empty_dirs), running on an   *)
(* explicit model of the source, destination and trash directory trees.    *)
(* Paths follow POSIX conventions (os.sep = "/", os.path.normcase is the   *)
(* identity), the default filter "+ **/*/ **/*" is used and                *)
(* follow_symlinks is off.                                                 *)
(***************************************************************************)
EXTENDS Integers, Sequences, FiniteSets, TLC

(***************************************************************************)
(* Bounds of the model.                                                    *)
(***************************************************************************)
MaxSize == 2      \* file sizes are 1..MaxSize bytes
MaxTime == 2      \* modification times are 1..MaxTime
MaxFaults == 1    \* environment failures (OSError) injected in a behaviour
MaxRuns == 2      \* successive calls of sync() on the same trees
MaxEntries == 4   \* files and directories of the two initial trees together

(***************************************************************************)
(* The path universe.  Relative paths are strings; "." is a root.  Every   *)
(* path p has a sibling p.tempcopy, the temporary file of _copy; such a    *)
(* name is an ordinary file name, and a tree may hold a file that has it.  *)
(* PathOrder lists the universe in the order of Python's sorted() on str.  *)
(***************************************************************************)
Root == "."

TreePaths == {"a", "a/a", "b"}

FlatPaths == {"a", "a.tempcopy", "b", "c"}

PathOrder ==
  << "A", "A/a", "A/a/a", "A/b", "a", "a.tempcopy", "a.tempcopy.tempcopy", "a/a", "a/a.tempcopy", "a/a/a", "a/b",
     "b", "b.tempcopy", "c", "c.tempcopy" >>

AllPaths == { PathOrder[i] : i \in 1..Len(PathOrder) }

Nodes == AllPaths \cup {Root}

\* Path.parent / os.path.dirname
Parent(p) ==
  CASE p = "a/a" -> "a"
    [] p = "a/a.tempcopy" -> "a"
    [] p = "A/a" -> "A"
    [] p = "A/b" -> "A"
    [] p = "a/b" -> "a"
    [] p = "A/a/a" -> "A/a"
    [] p = "a/a/a" -> "a/a"
    [] OTHER -> Root

\* dst.with_name(dst.name + ".tempcopy")
TempName(p) ==
  CASE p = "a" -> "a.tempcopy"
    [] p = "a.tempcopy" -> "a.tempcopy.tempcopy"
    [] p = "a/a" -> "a/a.tempcopy"
    [] p = "b" -> "b.tempcopy"
    [] p = "c" -> "c.tempcopy"
    [] OTHER -> p

\* sorted(S) for a set of relative paths
Sorted(S) == SelectSeq(PathOrder, LAMBDA p : p \in S)

SeqSet(s) == { s[i] : i \in 1..Len(s) }

\* every order in which a Python set of these paths may be iterated
Orders(S) ==
  { s \in [1..Cardinality(S) -> S] : \A i, j \in 1..Cardinality(S) : s[i] = s[j] => i = j }

(***************************************************************************)
(* File-system entries and trees.  A tree maps every node to an entry; a   *)
(* tree is well formed when every existing entry's parent is a directory.  *)
(***************************************************************************)
Absent == [kind |-> "none", size |-> 0, mtime |-> 0, data |-> "-"]

Dir == [kind |-> "dir", size |-> 0, mtime |-> 0, data |-> "-"]

File(s, m, d) == [kind |-> "file", size |-> s, mtime |-> m, data |-> d]

EmptyTree == [n \in Nodes |-> IF n = Root THEN Dir ELSE Absent]

NoTree == [n \in Nodes |-> Absent]

Exists(fs, p) == fs[p].kind # "none"

IsDir(fs, p) == fs[p].kind = "dir"

IsFile(fs, p) == fs[p].kind = "file"

Children(fs, d) == { p \in AllPaths : Parent(p) = d /\ Exists(fs, p) }

WellFormed(fs) ==
  \A p \in AllPaths : Exists(fs, p) => IsDir(fs, Parent(p))

Entries(fs) == Cardinality({ p \in AllPaths : Exists(fs, p) })

FilesOf(fs) == { p \in AllPaths : IsFile(fs, p) }

DirsOf(fs) == { p \in AllPaths : IsDir(fs, p) }

RECURSIVE SumSizes(_, _)
SumSizes(fs, S) ==
  IF S = {} THEN 0
  ELSE LET p == CHOOSE q \in S : TRUE
       IN fs[p].size + SumSizes(fs, S \ {p})

\* total size of the files of a tree
TreeBytes(fs) == SumSizes(fs, FilesOf(fs))

(***************************************************************************)
(* Environment failures.  A fault names the primitive of the operation     *)
(* being applied that fails with an OSError (permission denied, disk       *)
(* full, ...); "part" is the number of bytes shutil.copy2 had written      *)
(* into the temporary file when it failed.                                 *)
(***************************************************************************)
NoFault == [at |-> "none", part |-> 0]

Faults ==
  { [at |-> w, part |-> 0] : w \in {"mkdir", "copy_open", "replace", "rmdir"} }
    \cup { [at |-> "copy_write", part |-> k] : k \in {0, MaxSize} }

\* the time at which the run writes new files: later than every mtime
Now == MaxTime + 1

(***************************************************************************)
(* File-system primitives.  Each returns [ok, fs]: whether the call        *)
(* returned normally, and the tree it leaves behind.                       *)
(***************************************************************************)

\* Path.mkdir(parents=True, exist_ok=True) and os.makedirs(exist_ok=True)
RECURSIVE MkDirs(_, _, _)
MkDirs(fs, d, fault) ==
  IF IsDir(fs, d) THEN [ok |-> TRUE, fs |-> fs]
  ELSE IF Exists(fs, d) THEN [ok |-> FALSE, fs |-> fs]
  ELSE IF fault.at = "mkdir" THEN [ok |-> FALSE, fs |-> fs]
  ELSE IF d = Root THEN [ok |-> TRUE, fs |-> [fs EXCEPT ![d] = Dir]]
  ELSE LET up == MkDirs(fs, Parent(d), fault)
       IN IF up.ok THEN [ok |-> TRUE, fs |-> [up.fs EXCEPT ![d] = Dir]]
          ELSE up

\* _delete_empty_dirs: the loop of rmdir calls from dir upward; an OSError
\* inside the loop is logged as a warning and ends the walk
RECURSIVE RmdirWalk(_, _, _)
RmdirWalk(fs, dir, fault) ==
  IF dir = Root \/ Children(fs, dir) # {} THEN fs
  ELSE IF fault.at = "rmdir" THEN fs
  ELSE RmdirWalk([fs EXCEPT ![dir] = Absent], Parent(dir), fault)

\* a clean-up that removes every empty directory of the tree
DeleteEmptyDirsSweep(fs, dir, fault) ==
  IF ~IsDir(fs, dir) THEN [status |-> "valueerror", fs |-> fs]
  ELSE [status |-> "ok",
        fs |-> [n \in Nodes |->
                  IF n # Root /\ IsDir(fs, n) /\ Children(fs, n) = {} THEN Absent
                  ELSE fs[n]]]

\* _delete_empty_dirs(dir, root): status "valueerror" when dir is no directory
DeleteEmptyDirs(fs, dir, fault) ==
  IF ~IsDir(fs, dir) THEN [status |-> "valueerror", fs |-> fs]
  ELSE [status |-> "ok", fs |-> RmdirWalk(fs, dir, fault)]

\* _move(src, dst, delete_empty_dirs_under=root) with src and dst in one tree
MoveWithin(fs, s, d, fault) ==
  IF Exists(fs, d) THEN [ok |-> FALSE, fs |-> fs]
  ELSE LET mk == MkDirs(fs, Parent(d), fault)
       IN IF ~mk.ok THEN [ok |-> FALSE, fs |-> mk.fs]
          ELSE IF ~Exists(mk.fs, s) \/ fault.at = "replace"
            THEN [ok |-> FALSE, fs |-> mk.fs]
          ELSE LET moved == [mk.fs EXCEPT ![d] = mk.fs[s], ![s] = Absent]
               IN [ok |-> TRUE, fs |-> DeleteEmptyDirs(moved, Parent(s), fault).fs]

\* _move(src, dst, delete_empty_dirs_under=dst_root) with dst in the trash tree
MoveOut(fs, tfs, s, d, fault) ==
  IF Exists(tfs, d) THEN [ok |-> FALSE, fs |-> fs, tfs |-> tfs]
  ELSE LET mk == MkDirs(tfs, Parent(d), fault)
       IN IF ~mk.ok THEN [ok |-> FALSE, fs |-> fs, tfs |-> mk.fs]
          ELSE IF ~Exists(fs, s) \/ fault.at = "replace"
            THEN [ok |-> FALSE, fs |-> fs, tfs |-> mk.fs]
          ELSE LET gone == [fs EXCEPT ![s] = Absent]
               IN [ok |-> TRUE,
                   fs |-> DeleteEmptyDirs(gone, Parent(s), fault).fs,
                   tfs |-> [mk.fs EXCEPT ![d] = fs[s]]]

\* _copy(src, dst): copy2 writes dst.tempcopy (over a file of that name, if
\* there is one), then dst.tempcopy replaces dst.  delete_tmp is set only
\* after copy2 has returned: a copy2 that fails leaves what it has written,
\* a replace that fails has the temporary file unlinked.
Copy(sfs, fs, s, d, fault) ==
  IF Exists(fs, d) /\ ~IsFile(fs, d) THEN [ok |-> FALSE, fs |-> fs]
  ELSE LET mk == MkDirs(fs, Parent(d), fault)
           tmp == TempName(d)
       IN IF ~mk.ok THEN [ok |-> FALSE, fs |-> mk.fs]
          ELSE IF ~IsFile(sfs, s) \/ fault.at = "copy_open"
            THEN [ok |-> FALSE, fs |-> mk.fs]
          ELSE IF fault.at = "copy_write" /\ fault.part <= sfs[s].size
            THEN [ok |-> FALSE,
                  fs |-> [mk.fs EXCEPT ![tmp] = File(fault.part, Now, "partial")]]
          ELSE IF fault.at = "replace"
            THEN [ok |-> FALSE, fs |-> [mk.fs EXCEPT ![tmp] = Absent]]
          ELSE [ok |-> TRUE, fs |-> [mk.fs EXCEPT ![d] = sfs[s], ![tmp] = Absent]]

(***************************************************************************)
(* The tree scanner.  A snapshot (_FileList) holds the metadata of every   *)
(* file, the set of empty directories and the real name of every key.      *)
(***************************************************************************)
Metadata(e) == [size |-> e.size, mtime |-> e.mtime]

\* os.name: "posix", or "nt", where os.path.normcase puts a path in lower
\* case and the file system finds an entry whatever the case of its name
VARIABLE os_name

\* str.lower() on the paths of the universe
Lower(p) ==
  CASE p = "A" -> "a"
    [] p = "A/a" -> "a/a"
    [] p = "A/b" -> "a/b"
    [] p = "A/a/a" -> "a/a/a"
    [] OTHER -> p

\* a variant of normcase that leaves the case alone on every platform
NormCaseKeepsCase(p) == p

\* os.path.normcase(p)
NormCase(p) == IF os_name = "nt" THEN Lower(p) ELSE p

\* the entry of the tree that the file system finds for the path p
Lookup(fs, p) ==
  IF os_name = "nt" /\ \E q \in Nodes : Exists(fs, q) /\ Lower(q) = Lower(p)
    THEN CHOOSE q \in Nodes : Exists(fs, q) /\ Lower(q) = Lower(p)
    ELSE p

\* a scan that gives real names to the files only
ScandirFilesOnly(fs) ==
  LET files == IF IsDir(fs, Root) THEN FilesOf(fs) ELSE {}
      empty == IF IsDir(fs, Root)
                 THEN { p \in DirsOf(fs) : Children(fs, p) = {} }
                 ELSE {}
  IN [relpath_to_stats |-> [k \in { NormCase(p) : p \in files } |->
                              Metadata(fs[CHOOSE p \in files : NormCase(p) = k])],
      real_names |-> [k \in { NormCase(p) : p \in files } |->
                        CHOOSE p \in files : NormCase(p) = k],
      empty_dirs |-> { NormCase(p) : p \in empty }]

\* _scandir(root) with the default filter; a root that is no directory is
\* walked as an empty tree.  The keys of the snapshot are the normalized
\* relative paths, real_names gives the path as it is in the tree.
Scandir(fs) ==
  LET files == IF IsDir(fs, Root) THEN FilesOf(fs) ELSE {}
      empty == IF IsDir(fs, Root)
                 THEN { p \in DirsOf(fs) : Children(fs, p) = {} }
                 ELSE {}
      real  == [k \in { NormCase(p) : p \in files \cup empty } |->
                  CHOOSE p \in files \cup empty : NormCase(p) = k]
  IN [relpath_to_stats |-> [k \in { NormCase(p) : p \in files } |-> Metadata(fs[real[k]])],
      real_names |-> real,
      empty_dirs |-> { NormCase(p) : p \in empty }]

(***************************************************************************)
(* The diff planner.                                                       *)
(***************************************************************************)
None == "None"

\* _reverse_dict over the entries keys[i..] of a dict in insertion order
RECURSIVE ReverseFrom(_, _, _, _)
ReverseFrom(keys, stats, i, reversed) ==
  IF i > Len(keys) THEN reversed
  ELSE LET key == keys[i]
           val == stats[key]
       IN IF val \in DOMAIN reversed
            THEN ReverseFrom(keys, stats, i + 1, [reversed EXCEPT ![val] = None])
            ELSE ReverseFrom(keys, stats, i + 1, reversed @@ (val :> key))

\* _reverse_dict({path: stats[path] for path in keys})
ReverseDict(keys, stats) == ReverseFrom(keys, stats, 1, <<>>)

\* the trailing window read by _last_bytes
TailWindow == 1024

\* _last_bytes(file_path): the last min(n, size) bytes of the file
LastBytes(fs, p) ==
  [len |-> IF TailWindow > fs[p].size THEN fs[p].size ELSE TailWindow,
   data |-> fs[p].data]

Op(kind, s, d, delta) == [op |-> kind, src |-> s, dst |-> d, byte_diff |-> delta]

NoOp == Op("none", "-", "-", 0)

\* the generator object created by the call _operations(src_files, dst_files, ...):
\* its local variables; ddirs and cdirs are the iteration orders of the two sets
NewGen(S, D, ddirs, cdirs) ==
  LET src_relpaths == DOMAIN S.relpath_to_stats
      dst_relpaths == DOMAIN D.relpath_to_stats
  IN [phase |-> "D-", i |-> 1,
      src_only_relpaths |-> Sorted(src_relpaths \ dst_relpaths),
      dst_only_relpaths |-> Sorted(dst_relpaths \ src_relpaths),
      both_relpaths |-> Sorted(src_relpaths \cap dst_relpaths),
      rename_loop |-> Sorted(dst_relpaths \ src_relpaths),
      dst_only_empty_dirs |-> ddirs,
      src_only_empty_dirs |-> cdirs]

Yield(g, o) == [kind |-> "yield", op |-> o, gen |-> g]

Stop(g) == [kind |-> "stop", op |-> NoOp, gen |-> [g EXCEPT !.phase = "end"]]

Raise(g) == [kind |-> "raise", op |-> NoOp, gen |-> [g EXCEPT !.phase = "end"]]

\* a rename that leaves its two paths in the lists of the later loops
RemoveNothing(seq, x) == seq

\* list.remove(x), on a list without duplicates
Remove(seq, x) == SelectSeq(seq, LAMBDA y : y # x)

\* a generator whose create loop runs before its delete loop
NextPhaseCreateFirst(g, ph) ==
  [g EXCEPT !.i = 1,
            !.phase = IF g.phase = "R" /\ ph = "-" THEN "+"
                      ELSE IF g.phase = "+" /\ ph = "U" THEN "-"
                      ELSE IF g.phase = "-" /\ ph = "+" THEN "U"
                      ELSE ph]

\* the end of one loop of the generator: on to the next loop
NextPhase(g, ph) == [g EXCEPT !.phase = ph, !.i = 1]

Skip(g) == [g EXCEPT !.i = @ + 1]

\* "if src_time > dst_time:" decides an update
Newer(src_time, dst_time) == src_time > dst_time

\* "if stats.size < rename_threshold: continue"
BelowOrAtThreshold(size, threshold) == size <= threshold

BelowThreshold(size, threshold) == size < threshold

\* the rename step for the destination-only file p: the operation to yield,
\* "skip" when p is no rename candidate, "raise" when _last_bytes fails
RenameOf(g, S, D, sfs, dfs, o, p) ==
  LET stats == D.relpath_to_stats[p]
      src_only_relpath_from_stats ==
        ReverseDict(Sorted(DOMAIN S.relpath_to_stats \ DOMAIN D.relpath_to_stats),
                    S.relpath_to_stats)
      dst_only_relpath_from_stats ==
        ReverseDict(Sorted(DOMAIN D.relpath_to_stats \ DOMAIN S.relpath_to_stats),
                    D.relpath_to_stats)
      rename_to == src_only_relpath_from_stats[stats]
      rename_from == dst_only_relpath_from_stats[stats]
  IN IF BelowThreshold(stats.size, o.rename_threshold.value) THEN [kind |-> "skip"]
     ELSE IF stats \notin DOMAIN src_only_relpath_from_stats THEN [kind |-> "skip"]
     ELSE IF rename_to = None THEN [kind |-> "skip"]
     ELSE IF rename_from = None THEN [kind |-> "skip"]
     ELSE IF ~o.metadata_only /\ \/ ~IsFile(sfs, Lookup(sfs, rename_to))
                                 \/ ~IsFile(dfs, Lookup(dfs, rename_from))
       THEN [kind |-> "raise"]
     ELSE IF ~o.metadata_only /\ LastBytes(sfs, Lookup(sfs, rename_to))
                                   # LastBytes(dfs, Lookup(dfs, rename_from))
       THEN [kind |-> "skip"]
     ELSE [kind |-> "yield", from |-> rename_from, to |-> rename_to]

\* resume the generator _operations: run it up to its next yield, to its end
\* (stop) or to an exception it raises; dfs and sfs are the trees as they are
\* when the generator runs
RECURSIVE Operations(_, _, _, _, _, _)
Operations(g, S, D, sfs, dfs, o) ==
  CASE g.phase = "D-" ->
         IF g.i > Len(g.dst_only_empty_dirs)
           THEN Operations(NextPhase(g, "R"), S, D, sfs, dfs, o)
         ELSE LET src == D.real_names[g.dst_only_empty_dirs[g.i]]
              IN IF ~IsDir(dfs, src) \/ Children(dfs, src) # {} THEN Raise(g)
                 ELSE Yield(Skip(g), Op("D-", src, "-", 0))
    [] g.phase = "R" ->
         IF o.rename_threshold.none \/ g.i > Len(g.rename_loop)
           THEN Operations(NextPhase(g, "-"), S, D, sfs, dfs, o)
         ELSE LET r == RenameOf(g, S, D, sfs, dfs, o, g.rename_loop[g.i])
              IN IF r.kind = "skip" THEN Operations(Skip(g), S, D, sfs, dfs, o)
                 ELSE IF r.kind = "raise" THEN Raise(g)
                 ELSE Yield([g EXCEPT !.i = @ + 1,
                                      !.src_only_relpaths = Remove(@, r.to),
                                      !.dst_only_relpaths = Remove(@, r.from)],
                            Op("R", D.real_names[r.from], S.real_names[r.to], 0))
    [] g.phase = "-" ->
         IF ~o.trash \/ g.i > Len(g.dst_only_relpaths)
           THEN Operations(NextPhase(g, "+"), S, D, sfs, dfs, o)
         ELSE LET dst_relpath == g.dst_only_relpaths[g.i]
              IN Yield(Skip(g), Op("-", D.real_names[dst_relpath], D.real_names[dst_relpath],
                                   0 - D.relpath_to_stats[dst_relpath].size))
    [] g.phase = "+" ->
         IF g.i > Len(g.src_only_relpaths)
           THEN Operations(NextPhase(g, "U"), S, D, sfs, dfs, o)
         ELSE LET src_relpath == g.src_only_relpaths[g.i]
              IN Yield(Skip(g), Op("+", S.real_names[src_relpath], S.real_names[src_relpath],
                                   S.relpath_to_stats[src_relpath].size))
    [] g.phase = "U" ->
         IF g.i > Len(g.both_relpaths)
           THEN Operations(NextPhase(g, "D+"), S, D, sfs, dfs, o)
         ELSE LET relpath == g.both_relpaths[g.i]
                  src_time == S.relpath_to_stats[relpath].mtime
                  dst_time == D.relpath_to_stats[relpath].mtime
              IN IF Newer(src_time, dst_time)
                   THEN Yield(Skip(g), Op("U", S.real_names[relpath], D.real_names[relpath],
                                          S.relpath_to_stats[relpath].size
                                            - D.relpath_to_stats[relpath].size))
                   ELSE Operations(Skip(g), S, D, sfs, dfs, o)
    [] g.phase = "D+" ->
         IF g.i > Len(g.src_only_empty_dirs) THEN Stop(g)
         ELSE Yield(Skip(g), Op("D+", "-", S.real_names[g.src_only_empty_dirs[g.i]], 0))
    [] OTHER -> Stop(g)

(***************************************************************************)
(* The operation executor: the body of the loop of sync().                 *)
(***************************************************************************)
OpKinds == {"D-", "R", "-", "+", "U", "D+"}

\* Results.__init__
NewResults ==
  [success |-> FALSE, errors |-> <<>>,
   create_success |-> 0, rename_success |-> 0, update_success |-> 0,
   delete_success |-> 0, create_error |-> 0, rename_error |-> 0,
   update_error |-> 0, delete_error |-> 0, byte_diff |-> 0,
   dir_create_success |-> 0, dir_create_error |-> 0,
   dir_delete_success |-> 0, dir_delete_error |-> 0]

\* Results.err_count
err_count(r) ==
  r.create_error + r.rename_error + r.update_error + r.delete_error
    + r.dir_create_error + r.dir_delete_error

SuccessCounter(kind) ==
  CASE kind = "-" -> "delete_success"
    [] kind = "+" -> "create_success"
    [] kind = "U" -> "update_success"
    [] kind = "R" -> "rename_success"
    [] kind = "D+" -> "dir_create_success"
    [] kind = "D-" -> "dir_delete_success"

ErrorCounter(kind) ==
  CASE kind = "-" -> "delete_error"
    [] kind = "+" -> "create_error"
    [] kind = "U" -> "update_error"
    [] kind = "R" -> "rename_error"
    [] kind = "D+" -> "dir_create_error"
    [] kind = "D-" -> "dir_delete_error"

\* the file-system call made for one operation: status "ok" when it returns,
\* "oserror" when it raises an OSError, "valueerror" when it raises ValueError
Perform(o, sfs, dfs, tfs, fault) ==
  CASE o.op = "-" ->
         LET r == MoveOut(dfs, tfs, o.src, o.dst, fault)
         IN [status |-> IF r.ok THEN "ok" ELSE "oserror", dfs |-> r.fs, tfs |-> r.tfs]
    [] o.op = "R" ->
         LET r == MoveWithin(dfs, o.src, o.dst, fault)
         IN [status |-> IF r.ok THEN "ok" ELSE "oserror", dfs |-> r.fs, tfs |-> tfs]
    [] o.op \in {"+", "U"} ->
         LET r == Copy(sfs, dfs, o.src, o.dst, fault)
         IN [status |-> IF r.ok THEN "ok" ELSE "oserror", dfs |-> r.fs, tfs |-> tfs]
    [] o.op = "D+" ->
         LET r == MkDirs(dfs, o.dst, fault)
         IN [status |-> IF r.ok THEN "ok" ELSE "oserror", dfs |-> r.fs, tfs |-> tfs]
    [] o.op = "D-" ->
         LET r == DeleteEmptyDirs(dfs, o.src, fault)
         IN [status |-> r.status, dfs |-> r.fs, tfs |-> tfs]

\* an applied operation with the way its try block ended
Outcome(o, status) ==
  [op |-> o.op, src |-> o.src, dst |-> o.dst, byte_diff |-> o.byte_diff,
   status |-> status]

\* the counters after the try/except around one operation
Account(res, o, status) ==
  IF status = "ok"
    THEN [res EXCEPT ![SuccessCounter(o.op)] = @ + 1,
                     !.byte_diff = IF o.op \in {"-", "+", "U"} THEN @ + o.byte_diff ELSE @]
  ELSE IF status = "oserror"
    THEN [res EXCEPT ![ErrorCounter(o.op)] = @ + 1,
                     !.errors = Append(@, o.op)]
  ELSE res

(***************************************************************************)
(* The filter (class _Filter).  A pattern and a relative path are the      *)
(* lists of their components, re.split("/") of the string: "a/b/" is       *)
(* <<"a", "b", "">>, "/a" is <<"", "a">> and the empty string is <<"">>.    *)
(* A component is a whole name, "*" or "**"; BackslashName is a name that   *)
(* begins with a backslash, an ordinary character of a POSIX file name.    *)
(***************************************************************************)
EmptyString == <<"">>

BackslashName == "\\a."

Front(s) == SubSeq(s, 1, Len(s) - 1)

\* the string is fully consumed at the start of component j
AtEnd(relpath, j) ==
  \/ j = Len(relpath) + 1
  \/ j = Len(relpath) /\ relpath[j] = ""

\* reobj.match(relpath) for reobj = re.compile(glob.translate(pattern,
\* recursive=True, include_hidden=True)), from component i of the pattern and
\* component j of the path on: "*" is [^/]+, "**" is (?:.+/)? before another
\* component and .* at the end, a name is itself, and the match is anchored
RECURSIVE Match(_, _, _, _)
Match(pattern, i, relpath, j) ==
  IF i > Len(pattern) THEN AtEnd(relpath, j)
  ELSE
    LET part == pattern[i]
        last == i = Len(pattern)
        more == j < Len(relpath)
    IN CASE part = "*" ->
              IF last THEN j = Len(relpath) /\ relpath[j] # ""
              ELSE more /\ relpath[j] # "" /\ Match(pattern, i + 1, relpath, j + 1)
         [] part = "**" ->
              IF last THEN TRUE
              ELSE IF pattern[i + 1] = "**" THEN Match(pattern, i + 1, relpath, j)
              ELSE \E k \in j..Len(relpath) :
                     /\ k = j + 1 => relpath[j] # ""
                     /\ Match(pattern, i + 1, relpath, k)
         [] OTHER ->
              IF last
              THEN IF part = "" THEN AtEnd(relpath, j)
                   ELSE j = Len(relpath) /\ relpath[j] = part
              ELSE more /\ relpath[j] = part /\ Match(pattern, i + 1, relpath, j + 1)

\* pattern[2:] when the pattern begins with "./"
StripDot(pattern) ==
  IF Len(pattern) >= 2 /\ pattern[1] = "." THEN Tail(pattern) ELSE pattern

\* the four tests for a ".." component, as the regular expressions of the
\* code decide them: the second one asks for a backslash, any character and a
\* dot before the separator
ParentDirs(pattern) ==
  \/ pattern = <<"..">>
  \/ Len(pattern) >= 2 /\ pattern[1] = BackslashName
  \/ \E i \in 2..(Len(pattern) - 1) : pattern[i] = ".."
  \/ Len(pattern) >= 2 /\ pattern[Len(pattern)] = ".."

\* os.path.isabs(pattern)
IsAbs(pattern) == Len(pattern) >= 2 /\ pattern[1] = ""

RECURSIVE RStrip(_)
RStrip(head) ==
  IF Len(head) > 1 /\ head[Len(head)] = "" THEN RStrip(Front(head)) ELSE head

\* os.path.dirname(pattern)
Dirname(pattern) ==
  IF Len(pattern) = 1 THEN EmptyString
  ELSE LET head == RStrip(Front(pattern))
       IN IF head = EmptyString THEN <<"", "">> ELSE head

Compiled(action, pattern) == [action |-> action, pattern |-> pattern]

\* a variant of the loop that adds no pattern
ImplicitDirsNone(pattern, implicit_dirs, pats) ==
  [patterns |-> pats, implicit_dirs |-> implicit_dirs]

\* the while loop that adds the parent directories of an include pattern
RECURSIVE ImplicitDirs(_, _, _)
ImplicitDirs(pattern, implicit_dirs, pats) ==
  LET parent == Dirname(pattern)
  IN IF parent = EmptyString \/ parent \in implicit_dirs
     THEN [patterns |-> pats, implicit_dirs |-> implicit_dirs]
     ELSE ImplicitDirs(parent, implicit_dirs \cup {parent},
                       Append(pats, Compiled(TRUE, parent \o <<"">>)))

\* _Filter.__init__ from rule i on; a rule is [action, pattern]
RECURSIVE Compile(_, _, _, _)
Compile(rules, i, implicit_dirs, pats) ==
  IF i > Len(rules) THEN [status |-> "ok", patterns |-> pats]
  ELSE
    LET action  == rules[i].action
        pattern == StripDot(rules[i].pattern)
        dirs    == IF action THEN implicit_dirs ELSE {}
    IN IF ParentDirs(pattern) \/ IsAbs(pattern)
       THEN [status |-> "valueerror", patterns |-> <<>>]
       ELSE IF pattern = EmptyString THEN Compile(rules, i + 1, dirs, pats)
       ELSE LET own == Append(pats, Compiled(action, pattern))
                imp == IF action THEN ImplicitDirs(pattern, dirs, own)
                       ELSE [patterns |-> own, implicit_dirs |-> dirs]
            IN Compile(rules, i + 1, imp.implicit_dirs, imp.patterns)

\* _Filter(filter_string)
NewFilter(rules) == Compile(rules, 1, {}, <<>>)

\* a variant of filter() in which the last matching pattern decides
RECURSIVE FilterLastMatch(_, _, _)
FilterLastMatch(pats, relpath, default) ==
  IF pats = <<>> THEN default
  ELSE IF Match(pats[Len(pats)].pattern, 1, relpath, 1) THEN pats[Len(pats)].action
  ELSE FilterLastMatch(Front(pats), relpath, default)

\* _Filter.filter(relpath, default)
RECURSIVE Filter(_, _, _)
Filter(pats, relpath, default) ==
  IF pats = <<>> THEN default
  ELSE IF Match(pats[1].pattern, 1, relpath, 1) THEN pats[1].action
  ELSE Filter(Tail(pats), relpath, default)

\* the filter that _scandir and sync use when none is given: "+ **/*/ **/*"
DefaultFilter ==
  << [action |-> TRUE, pattern |-> <<"**", "*", "">>],
     [action |-> TRUE, pattern |-> <<"**", "*">>] >>

(***************************************************************************)
(* _scandir with a filter, on a tree given by the relative paths of its    *)
(* directories and of its files.                                           *)
(***************************************************************************)
ChildrenOf(paths, dir) ==
  { p \in paths : Len(p) = Len(dir) + 1 /\ SubSeq(p, 1, Len(dir)) = dir }

\* a variant of the walk that enters every subdirectory
RECURSIVE WalkUnpruned(_, _, _)
WalkUnpruned(tree, pats, dir) ==
  LET subdirnames  == ChildrenOf(tree.dirs, dir)
      file_entries == ChildrenOf(tree.files, dir)
      below == [ d \in subdirnames |-> WalkUnpruned(tree, pats, d) ]
  IN IF /\ dir # <<>>
        /\ file_entries = {}
        /\ subdirnames = {}
        /\ Filter(pats, dir \o <<"">>, FALSE)
     THEN [files |-> {}, empty_dirs |-> {dir}]
     ELSE [files      |-> { f \in file_entries : Filter(pats, f, FALSE) }
                          \cup UNION { below[d].files : d \in subdirnames },
           empty_dirs |-> UNION { below[d].empty_dirs : d \in subdirnames }]

\* a variant of the walk that takes every file of the directories it enters
RECURSIVE WalkEveryFile(_, _, _)
WalkEveryFile(tree, pats, dir) ==
  LET subdirnames  == ChildrenOf(tree.dirs, dir)
      file_entries == ChildrenOf(tree.files, dir)
      kept  == { d \in subdirnames : Filter(pats, d \o <<"">>, FALSE) }
      below == [ d \in kept |-> WalkEveryFile(tree, pats, d) ]
  IN IF /\ dir # <<>>
        /\ file_entries = {}
        /\ subdirnames = {}
        /\ Filter(pats, dir \o <<"">>, FALSE)
     THEN [files |-> {}, empty_dirs |-> {dir}]
     ELSE [files      |-> file_entries \cup UNION { below[d].files : d \in kept },
           empty_dirs |-> UNION { below[d].empty_dirs : d \in kept }]

\* the walk from directory dir down: an empty directory is recorded when the
\* filter admits it, a subdirectory is entered when the filter admits it, a
\* file is taken when the filter admits it
RECURSIVE Walk(_, _, _)
Walk(tree, pats, dir) ==
  LET subdirnames  == ChildrenOf(tree.dirs, dir)
      file_entries == ChildrenOf(tree.files, dir)
      kept  == { d \in subdirnames : Filter(pats, d \o <<"">>, FALSE) }
      below == [ d \in kept |-> Walk(tree, pats, d) ]
  IN IF /\ dir # <<>>
        /\ file_entries = {}
        /\ subdirnames = {}
        /\ Filter(pats, dir \o <<"">>, FALSE)
     THEN [files |-> {}, empty_dirs |-> {dir}]
     ELSE [files      |-> { f \in file_entries : Filter(pats, f, FALSE) }
                          \cup UNION { below[d].files : d \in kept },
           empty_dirs |-> UNION { below[d].empty_dirs : d \in kept }]

\* _scandir(root, filter=rules): the files and empty directories of the
\* snapshot, or the ValueError of _Filter
ScandirFilter(tree, rules) ==
  LET f == NewFilter(rules)
  IN IF f.status = "ok"
     THEN [status |-> "ok"] @@ Walk(tree, f.patterns, <<>>)
     ELSE [status |-> f.status, files |-> {}, empty_dirs |-> {}]

(***************************************************************************)
(* The state: the three directory trees, the arguments of sync(), and the  *)
(* local variables of the running call.  emitted, applied, dst0 and prev   *)
(* record the history of the calls.                                        *)
(***************************************************************************)
VARIABLES
  srcfs,      \* the tree under src_root
  dstfs,      \* the tree under dst_root
  trashfs,    \* the tree under trash_root (a fresh timestamped directory)
  opt,        \* trash, rename_threshold, metadata_only, dry_run
  pc,         \* "idle": no call is running; "loop": inside the for loop
  runs,       \* number of calls of sync() that have returned
  src_files,  \* _scandir(src_root)
  dst_files,  \* _scandir(dst_root)
  gen,        \* the generator _operations(...)
  results,    \* the Results object
  ended,      \* how the last call ended: "success", "input_error", "unexpected_error"
  emitted,    \* the operations yielded (and logged) so far in this call
  applied,    \* the operations applied so far in this call, with their status
  dst0,       \* dstfs when the current call started
  prev,       \* how the previous call ended, and whether an operation of it failed
  faults      \* environment failures injected so far

\* the variables of a call of sync()
main ==
  << srcfs, dstfs, trashfs, opt, pc, runs, src_files, dst_files, gen, results,
     ended, emitted, applied, dst0, prev, faults >>

(***************************************************************************)
(* The state of the parts of the program that are modelled on their own:   *)
(* a _Filter object with a query put to it and a scan made with it, and a  *)
(* call of _copy with the two directory entries it works on.               *)
(***************************************************************************)
VARIABLES
  filter_string,  \* the filter argument: the rules, in the order they are written
  filt,           \* the _Filter object built from it: how __init__ ended, self.patterns
  query,          \* the last call filt.filter(relpath, default), with its result
  file_list,      \* the result of the last _scandir(root, filter=filter_string)
  cp,             \* a call of _copy(src, dst) taken statement by statement
  mv,             \* the last call of _move or _delete_empty_dirs, with the tree before it
  intruded,       \* the directories of dst into which another process has written a file
  walk            \* a call of _scandir on a tree with symbolic links, iteration by iteration

filter_vars == << filter_string, filt, query, file_list >>

\* the variables of the parts modelled on their own, and the platform
aux == << filter_vars, cp, mv, intruded, walk, os_name >>

vars == << main, aux >>

(***************************************************************************)
(* Initial trees.                                                          *)
(***************************************************************************)
Metas == [size : 1..MaxSize, mtime : 1..MaxTime]

FilesWith(data) == { File(m.size, m.mtime, data) : m \in Metas }

MkTree(f) ==
  [n \in Nodes |-> IF n = Root THEN Dir ELSE IF n \in DOMAIN f THEN f[n] ELSE Absent]

\* nested trees: files, empty and non-empty directories over TreePaths
NestedTrees(data) ==
  { t \in { MkTree(f) : f \in [TreePaths -> {Absent, Dir} \cup FilesWith(data)] } :
      WellFormed(t) }

\* a flat tree: the files X, all with the signature m
FlatTree(X, m, data) == MkTree([p \in X |-> File(m.size, m.mtime, data)])

Datas == {"p", "q"}

\* rename_threshold: None, or a number of bytes
NoThreshold == [none |-> TRUE, value |-> 0]

Threshold(n) == [none |-> FALSE, value |-> n]

Thresholds == {NoThreshold, Threshold(MaxSize)}

Options(dry) ==
  [trash : BOOLEAN, rename_threshold : Thresholds, metadata_only : BOOLEAN,
   dry_run : {dry}]

\* no _Filter object, no call of filter(), no scan
NoFilter == [status |-> "none", patterns |-> <<>>]

NoQuery == [relpath |-> <<>>, default |-> FALSE, result |-> FALSE, asked |-> FALSE]

NoScan == [status |-> "none", tree |-> [dirs |-> {}, files |-> {}],
           files |-> {}, empty_dirs |-> {}]

\* no call of _copy
NoCopy ==
  [pc |-> "none", src |-> Absent, dst |-> Absent, mode |-> "rw", dst_tmp |-> Absent,
   dst0 |-> Absent, tmp0 |-> Absent, delete_tmp |-> FALSE, make_readonly |-> FALSE,
   raised |-> "none"]

\* no call of _move or _delete_empty_dirs has been made
NoMove ==
  [call |-> "none", status |-> "none", src |-> Root, dst |-> Root, root |-> Root,
   fault |-> "none", before |-> NoTree, calls |-> 0]

\* no call of _scandir on a tree with symbolic links
NoWalk ==
  [status |-> "none", follow_symlinks |-> FALSE, root_link |-> FALSE,
   parent |-> <<>>, link |-> <<>>, stack |-> <<>>, visited_inodes |-> {},
   yielded |-> <<>>]

FilterIdle ==
  /\ filt = NoFilter
  /\ query = NoQuery
  /\ file_list = NoScan

AuxIdle ==
  /\ filter_string = DefaultFilter
  /\ FilterIdle
  /\ cp = NoCopy
  /\ mv = NoMove
  /\ intruded = {}
  /\ walk = NoWalk

\* no call of sync() has been made
InitLocals ==
  /\ pc = "idle"
  /\ runs = 0
  /\ src_files = Scandir(NoTree)
  /\ dst_files = Scandir(NoTree)
  /\ gen = NewGen(Scandir(NoTree), Scandir(NoTree), <<>>, <<>>)
  /\ results = NewResults
  /\ ended = "-"
  /\ emitted = <<>>
  /\ applied = <<>>
  /\ dst0 = dstfs
  /\ prev = [ended |-> "-", failed |-> FALSE]
  /\ faults = 0

InitCommon ==
  /\ os_name = "posix"
  /\ AuxIdle
  /\ trashfs = NoTree
  /\ InitLocals

\* the trees of the two roots: nested trees, or flat trees whose files all
\* have one signature (of mtime 1), one of them named like the temporary
\* file of another; the files of the source hold the data "p" or "q", those
\* of the destination "p"
InitTrees ==
  \E data \in Datas :
    /\ opt.metadata_only => data = "q"
    /\ \/ /\ srcfs \in NestedTrees(data)
          /\ dstfs \in NestedTrees("p") \cup {NoTree}
       \/ \E who \in [FlatPaths -> {"none", "src", "dst", "both"}],
              m \in { x \in Metas : x.mtime = 1 } :
            /\ srcfs = FlatTree({ p \in FlatPaths : who[p] \in {"src", "both"} }, m, data)
            /\ dstfs = FlatTree({ p \in FlatPaths : who[p] \in {"dst", "both"} }, m, "p")
    /\ Entries(srcfs) + Entries(dstfs) <= MaxEntries

Init ==
  /\ opt \in Options(FALSE)
  /\ InitTrees
  /\ InitCommon

InitDry ==
  /\ opt \in Options(TRUE)
  /\ InitTrees
  /\ InitCommon

(***************************************************************************)
(* sync(): from the call to the first iteration of the for loop.           *)
(***************************************************************************)
\* a call that ignores its dry_run argument
DryRunIgnored(o) == FALSE

\* "if not dry_run:" guards every change of the file system
DryRun(o) == o.dry_run

InputError(o, sfs, dfs, tfs) ==
  \/ IsFile(sfs, Root)
  \/ IsFile(dfs, Root)
  \/ o.trash /\ IsFile(tfs, Root)

\* what is at the path trash_root (trash/<timestamp>) when sync is called:
\* nothing, the timestamp being new, unless a file has that very name
TrashBefore == IF IsFile(trashfs, Root) THEN trashfs ELSE NoTree

\* the checks made after the directories of the roots are created: the
\* sign of rename_threshold, and the patterns of the filter, which
\* _scandir compiles
LateInputError(o) ==
  \/ ~o.rename_threshold.none /\ o.rename_threshold.value < 0
  \/ NewFilter(filter_string).status = "valueerror"

Start ==
  /\ pc = "idle"
  /\ runs < MaxRuns
  /\ results' = NewResults
  /\ emitted' = <<>>
  /\ applied' = <<>>
  /\ dst0' = dstfs
  /\ prev' = [ended |-> ended,
               failed |-> faults > 0 \/ \E i \in 1..Len(applied) : applied[i].status # "ok"]
  /\ UNCHANGED << srcfs, opt, runs, faults >>
  /\ UNCHANGED aux
  /\ IF InputError(opt, srcfs, dstfs, TrashBefore)
       THEN /\ pc' = "idle"
            /\ ended' = "input_error"
            /\ trashfs' = TrashBefore
            /\ UNCHANGED << dstfs, src_files, dst_files, gen >>
       ELSE LET made == IF DryRun(opt) THEN dstfs ELSE MkDirs(dstfs, Root, NoFault).fs
                trash == IF DryRun(opt) \/ ~opt.trash THEN NoTree
                         ELSE MkDirs(NoTree, Root, NoFault).fs
            IN /\ dstfs' = made
               /\ trashfs' = trash
               /\ IF LateInputError(opt)
                    THEN /\ pc' = "idle"
                         /\ ended' = "input_error"
                         /\ UNCHANGED << src_files, dst_files, gen >>
                    ELSE /\ src_files' = Scandir(srcfs)
                         /\ dst_files' = Scandir(made)
                         /\ \E ddirs \in Orders(Scandir(made).empty_dirs
                                                  \ Scandir(srcfs).empty_dirs),
                               cdirs \in Orders(Scandir(srcfs).empty_dirs
                                                  \ Scandir(made).empty_dirs) :
                              gen' = NewGen(Scandir(srcfs), Scandir(made), ddirs, cdirs)
                         /\ pc' = "loop"
                         /\ ended' = "-"

(***************************************************************************)
(* One iteration of the for loop: the generator yields the next operation, *)
(* the summary is logged and, unless dry_run, the operation is applied.    *)
(***************************************************************************)
FaultsFor(o) ==
  CASE o.op \in {"-", "R"} -> { f \in Faults : f.at \in {"mkdir", "replace", "rmdir"} }
    [] o.op \in {"+", "U"} ->
         { f \in Faults : f.at \in {"mkdir", "copy_open", "copy_write", "replace"} }
    [] o.op = "D+" -> { f \in Faults : f.at = "mkdir" }
    [] o.op = "D-" -> { f \in Faults : f.at = "rmdir" }

\* the iteration, but for what it does to the tree of the source root
Iterate ==
  /\ pc = "loop"
  /\ LET next == Operations(gen, src_files, dst_files, srcfs, dstfs, opt)
     IN /\ next.kind # "stop"
        /\ gen' = next.gen
        /\ UNCHANGED << opt, src_files, dst_files, dst0, prev >>
        /\ UNCHANGED aux
        /\ IF next.kind = "raise"
             THEN /\ pc' = "idle"
                  /\ runs' = runs + 1
                  /\ ended' = "unexpected_error"
                  /\ UNCHANGED << dstfs, trashfs, results, emitted, applied, faults >>
             ELSE /\ emitted' = Append(emitted, next.op)
                  /\ IF DryRun(opt)
                       THEN UNCHANGED << dstfs, trashfs, results, applied, faults,
                                         pc, runs, ended >>
                       ELSE \E fault \in {NoFault} \cup
                                  (IF faults < MaxFaults THEN FaultsFor(next.op) ELSE {}) :
                              LET done == Perform(next.op, srcfs, dstfs, trashfs, fault)
                                  plain == Perform(next.op, srcfs, dstfs, trashfs, NoFault)
                              IN /\ fault # NoFault => done # plain
                                 /\ faults' = IF fault = NoFault THEN faults ELSE faults + 1
                                 /\ dstfs' = done.dfs
                                 /\ trashfs' = done.tfs
                                 /\ results' = Account(results, next.op, done.status)
                                 /\ applied' = Append(applied, Outcome(next.op, done.status))
                                 /\ IF done.status = "valueerror"
                                      THEN /\ pc' = "idle"
                                           /\ runs' = runs + 1
                                           /\ ended' = "input_error"
                                      ELSE UNCHANGED << pc, runs, ended >>

\* the iteration with the two roots apart: no operation writes under src_root
Step == Iterate /\ UNCHANGED srcfs

\* the generator is exhausted: the call ends successfully
Finish ==
  /\ pc = "loop"
  /\ Operations(gen, src_files, dst_files, srcfs, dstfs, opt).kind = "stop"
  /\ pc' = "idle"
  /\ runs' = runs + 1
  /\ ended' = "success"
  /\ results' = [results EXCEPT !.success = TRUE]
  /\ UNCHANGED << srcfs, dstfs, trashfs, opt, src_files, dst_files, gen, emitted,
                  applied, dst0, prev, faults >>
  /\ UNCHANGED aux

Next == Start \/ Step \/ Finish

Spec == Init /\ [][Next]_vars

SpecDry == InitDry /\ [][Next]_vars

(***************************************************************************)
(* sync() called with arguments that may be invalid: a root that is a      *)
(* file, a negative rename_threshold, a filter with a ".." pattern, a file  *)
(* at the path of the trash root.                                          *)
(***************************************************************************)
RootFile == [EmptyTree EXCEPT ![Root] = File(1, 1, "p")]

InputTrees ==
  { NoTree, RootFile, EmptyTree, MkTree([p \in {"b"} |-> File(1, 1, "p")]) }

BadFilter == << [action |-> TRUE, pattern |-> <<"a", "..", "b">>] >>

InitInput ==
  /\ os_name = "posix"
  /\ opt \in [trash : BOOLEAN, metadata_only : {TRUE}, dry_run : BOOLEAN,
              rename_threshold : Thresholds \cup {Threshold(-1)}]
  /\ srcfs \in InputTrees
  /\ dstfs \in InputTrees
  /\ trashfs \in {NoTree, RootFile}
  /\ filter_string \in {DefaultFilter, BadFilter}
  /\ FilterIdle
  /\ cp = NoCopy
  /\ mv = NoMove
  /\ intruded = {}
  /\ walk = NoWalk
  /\ InitLocals

SpecInput == InitInput /\ [][Next]_vars

(***************************************************************************)
(* sync() on a platform that folds the case of paths (os.name "nt"), as a  *)
(* dry run: the trees hold names that differ by case only, no two of them  *)
(* in one tree.                                                            *)
(***************************************************************************)
CasePaths == {"A", "A/a", "a", "a/a", "b"}

CaseUnique(t) ==
  \A p, q \in Nodes : (Exists(t, p) /\ Exists(t, q) /\ Lower(p) = Lower(q)) => p = q

\* files of one size, old or new
FoldFiles(data) == { File(MaxSize, m, data) : m \in 1..MaxTime }

FoldTrees(data) ==
  { t \in { MkTree(f) : f \in [CasePaths -> {Absent, Dir} \cup FoldFiles(data)] } :
      WellFormed(t) /\ CaseUnique(t) }

InitFold ==
  /\ os_name = "nt"
  /\ opt \in Options(TRUE)
  /\ \E data \in Datas :
       /\ opt.metadata_only => data = "q"
       /\ srcfs \in FoldTrees(data)
       /\ dstfs \in FoldTrees("p") \cup {NoTree}
  /\ Entries(srcfs) + Entries(dstfs) <= MaxEntries
  /\ AuxIdle
  /\ trashfs = NoTree
  /\ InitLocals

SpecFold == InitFold /\ [][Next]_vars

(***************************************************************************)
(* sync() with a KeyboardInterrupt.  Python raises it in the main thread   *)
(* wherever the thread is: between two operations, or inside _copy, _move  *)
(* or _delete_empty_dirs and up to the statement that counts the           *)
(* operation.  sync catches it after the loop ("except KeyboardInterrupt") *)
(* and returns its Results.                                                *)
(***************************************************************************)
\* nested trees whose files all have the size MaxSize
SizedTrees(data) ==
  { t \in NestedTrees(data) : \A p \in FilesOf(t) : t[p].size = MaxSize }

InitCancel ==
  /\ opt \in Options(FALSE)
  /\ opt.metadata_only
  /\ srcfs \in SizedTrees("q")
  /\ dstfs \in SizedTrees("p") \cup {NoTree}
  /\ Entries(srcfs) + Entries(dstfs) <= MaxEntries
  /\ InitCommon

\* the interrupt arrives while the generator runs or a summary is logged
Cancel ==
  /\ pc = "loop"
  /\ pc' = "idle"
  /\ runs' = runs + 1
  /\ ended' = "cancelled"
  /\ UNCHANGED << srcfs, dstfs, trashfs, opt, src_files, dst_files, gen, results,
                  emitted, applied, dst0, prev, faults >>
  /\ UNCHANGED aux

\* the interrupt arrives while an operation is applied: the calls of the
\* file system made so far stay made, those of the rest of the operation are
\* not made (as when the next call fails), and the statement that counts the
\* operation is not reached
CancelInOperation ==
  /\ pc = "loop"
  /\ ~DryRun(opt)
  /\ LET next == Operations(gen, src_files, dst_files, srcfs, dstfs, opt)
     IN /\ next.kind = "yield"
        /\ gen' = next.gen
        /\ emitted' = Append(emitted, next.op)
        /\ \E fault \in {NoFault} \cup FaultsFor(next.op) :
             LET done == Perform(next.op, srcfs, dstfs, trashfs, fault)
             IN /\ dstfs' = done.dfs
                /\ trashfs' = done.tfs
                /\ applied' = Append(applied, Outcome(next.op, "interrupted"))
  /\ pc' = "idle"
  /\ runs' = runs + 1
  /\ ended' = "cancelled"
  /\ UNCHANGED << srcfs, opt, src_files, dst_files, results, dst0, prev, faults >>
  /\ UNCHANGED aux

NextCancel == Start \/ Step \/ Finish \/ Cancel \/ CancelInOperation

SpecCancel == InitCancel /\ [][NextCancel]_vars

(***************************************************************************)
(* sync() while another process writes into the destination: a file        *)
(* appears in an empty directory of dst that the scan has recorded and     *)
(* whose "D-" operation has not been applied yet.                          *)
(***************************************************************************)
MaxIntrusions == 1

\* the file that the other process writes
LateFile == File(1, Now, "late")

InitRace ==
  /\ opt \in Options(FALSE)
  /\ opt.metadata_only
  /\ srcfs \in SizedTrees("q")
  /\ dstfs \in SizedTrees("p")
  /\ Entries(srcfs) + Entries(dstfs) <= MaxEntries
  /\ InitCommon

\* the file appears between two iterations of the loop, before the
\* generator is resumed for the directory ("assert not any(src.iterdir())")
Intrude ==
  /\ pc = "loop"
  /\ ~DryRun(opt)
  /\ gen.phase = "D-"
  /\ runs = 0
  /\ Cardinality(intruded) < MaxIntrusions
  /\ \E k \in gen.i..Len(gen.dst_only_empty_dirs), p \in AllPaths :
       LET dir == dst_files.real_names[gen.dst_only_empty_dirs[k]]
       IN /\ Parent(p) = dir
          /\ IsDir(dstfs, dir)
          /\ Children(dstfs, dir) = {}
          /\ dstfs' = [dstfs EXCEPT ![p] = LateFile]
          /\ intruded' = intruded \cup {dir}
  /\ UNCHANGED << srcfs, trashfs, opt, pc, runs, src_files, dst_files, gen, results,
                  ended, emitted, applied, dst0, prev, faults >>
  /\ UNCHANGED << filter_vars, cp, mv, walk, os_name >>

\* the file appears after the generator has yielded the "D-" of the
\* directory and before _delete_empty_dirs looks at it
StepRaced ==
  /\ pc = "loop"
  /\ ~DryRun(opt)
  /\ runs = 0
  /\ Cardinality(intruded) < MaxIntrusions
  /\ LET next == Operations(gen, src_files, dst_files, srcfs, dstfs, opt)
     IN /\ next.kind = "yield"
        /\ next.op.op = "D-"
        /\ \E p \in AllPaths :
             /\ Parent(p) = next.op.src
             /\ LET raced == [dstfs EXCEPT ![p] = LateFile]
                    done == Perform(next.op, srcfs, raced, trashfs, NoFault)
                IN /\ dstfs' = done.dfs
                   /\ trashfs' = done.tfs
                   /\ results' = Account(results, next.op, done.status)
                   /\ applied' = Append(applied, Outcome(next.op, done.status))
        /\ gen' = next.gen
        /\ emitted' = Append(emitted, next.op)
        /\ intruded' = intruded \cup {next.op.src}
  /\ UNCHANGED << srcfs, opt, pc, runs, src_files, dst_files, ended, dst0, prev, faults >>
  /\ UNCHANGED << filter_vars, cp, mv, walk, os_name >>

NextRace == Start \/ Step \/ Finish \/ Intrude \/ StepRaced

SpecRace == InitRace /\ [][NextRace]_vars

(***************************************************************************)
(* The filter on its own: a _Filter object is built from a rule list,      *)
(* paths are put to it, and trees are scanned with the rule list.          *)
(***************************************************************************)
MaxRules == 2

PatternPool ==
  { <<"a", "b", "">>, <<"a", "">>, <<"a", "*">>, <<"a", "d.txt">>,
    <<"**", "*", "">>, <<"**", "*">>, <<".", "a", "b", "">>,
    <<"..">>, <<"..", "a">>, <<"a", "..", "b">>, <<"a", "..">>,
    <<"", "a">>, <<BackslashName, "a">>, <<"a", "b", "c.txt">> }

Rules == [action : BOOLEAN, pattern : PatternPool]

RuleLists == UNION { [1..n -> Rules] : n \in 0..MaxRules }

RelPaths ==
  { <<"a", "">>, <<"a", "b", "">>, <<"a", "b", "c.txt">>, <<"a", "d.txt">>,
    <<"d.txt">>, <<"e", "">> }

\* the trees that are scanned: a/b/c.txt with a/d.txt, and the same with a
\* file in the root and an empty directory
ScanTrees ==
  { [dirs  |-> {<<"a">>, <<"a", "b">>},
     files |-> {<<"a", "b", "c.txt">>, <<"a", "d.txt">>}],
    [dirs  |-> {<<"a">>, <<"a", "b">>, <<"e">>},
     files |-> {<<"a", "b", "c.txt">>, <<"a", "d.txt">>, <<"d.txt">>}] }

\* the variables of sync() at rest
MainIdle ==
  /\ os_name = "posix"
  /\ srcfs = NoTree
  /\ dstfs = NoTree
  /\ opt = CHOOSE o \in Options(FALSE) : TRUE
  /\ trashfs = NoTree
  /\ InitLocals

InitFilter ==
  /\ MainIdle
  /\ filter_string \in RuleLists
  /\ FilterIdle
  /\ cp = NoCopy
  /\ mv = NoMove
  /\ intruded = {}
  /\ walk = NoWalk

\* f = _Filter(filter_string)
FilterNew ==
  /\ filt = NoFilter
  /\ filt' = NewFilter(filter_string)
  /\ UNCHANGED << main, filter_string, query, file_list, cp, mv, intruded, walk, os_name >>

\* f.filter(relpath, default)
FilterCall ==
  /\ filt.status = "ok"
  /\ \E relpath \in RelPaths, default \in BOOLEAN :
       query' = [relpath |-> relpath, default |-> default, asked |-> TRUE,
                 result |-> Filter(filt.patterns, relpath, default)]
  /\ UNCHANGED << main, filter_string, filt, file_list, cp, mv, intruded, walk, os_name >>

\* _scandir(root, filter=filter_string)
ScanCall ==
  /\ \E tree \in ScanTrees :
       file_list' = [tree |-> tree] @@ ScandirFilter(tree, filter_string)
  /\ UNCHANGED << main, filter_string, filt, query, cp, mv, intruded, walk, os_name >>

NextFilter == FilterNew \/ FilterCall \/ ScanCall

SpecFilter == InitFilter /\ [][NextFilter]_vars


(***************************************************************************)
(* _copy(src, dst) statement by statement, on the two entries of the       *)
(* destination directory it works on: dst and its sibling dst_tmp.  Every  *)
(* file-system call can fail with an OSError, replace also with a          *)
(* PermissionError, and a KeyboardInterrupt can arrive before any          *)
(* statement; the unlink of the finally clause is taken to succeed.  A     *)
(* file has the mode "rw", "r" (read-only, after chmod(S_IREAD)) or "w"    *)
(* (after chmod(S_IWRITE)).                                                *)
(***************************************************************************)
\* a variant in which shutil.copy2 writes into the destination path itself
DstTmpIsDst == "dst"

\* dst_tmp = dst.with_name(dst.name + ".tempcopy"): the entry copy2 writes
DstTmp == "dst_tmp"

NewCopy(src, dst, mode, tmp) ==
  [pc |-> "check", src |-> src, dst |-> dst, mode |-> mode, dst_tmp |-> tmp,
   dst0 |-> dst, tmp0 |-> tmp, delete_tmp |-> FALSE, make_readonly |-> FALSE,
   raised |-> "none"]

InitCopy ==
  /\ MainIdle
  /\ filter_string = DefaultFilter
  /\ FilterIdle
  /\ mv = NoMove
  /\ intruded = {}
  /\ walk = NoWalk
  /\ \E size \in 1..MaxSize, dst \in {Absent, Dir, File(1, 1, "p")},
        mode \in {"rw", "r"}, tmp \in {Absent, File(1, 1, "p")} :
       /\ mode = "r" => dst.kind = "file"
       /\ cp = NewCopy(File(size, MaxTime, "q"), dst, mode, tmp)

\* the handler that runs when an exception is raised at a statement
Handler(at) ==
  CASE at = "check" -> "done"
    [] at = "retry_replace" -> "inner_finally"
    [] OTHER -> "finally"

\* the statements in which the file system is called and can fail
Calls == {"mkdir", "open", "write", "copystat", "replace", "retry", "retry_replace"}

\* the statements of the try block
Interruptible == Calls \cup {"check"}

\* a call of _copy leaves the rest of the state alone
CopyFrame == UNCHANGED << main, filter_vars, mv, intruded, walk, os_name >>

\* lines 710-716: dst exists and is not a file
CopyCheck ==
  /\ cp.pc = "check"
  /\ cp' = IF cp.dst.kind = "dir"
           THEN [cp EXCEPT !.pc = "done", !.raised = "exists"]
           ELSE [cp EXCEPT !.pc = "mkdir"]
  /\ CopyFrame

\* dir.mkdir(parents=True, exist_ok=True)
CopyMkdir ==
  /\ cp.pc = "mkdir"
  /\ cp' = [cp EXCEPT !.pc = "open"]
  /\ CopyFrame

\* shutil.copy2: the file is opened for writing, which empties it
CopyOpen ==
  /\ cp.pc = "open"
  /\ cp' = [cp EXCEPT !.pc = "write", ![DstTmp] = File(0, Now, "partial")]
  /\ CopyFrame

\* shutil.copy2: one more byte is written
CopyWrite ==
  /\ cp.pc = "write"
  /\ LET n == cp[DstTmp].size + 1
     IN cp' = [cp EXCEPT !.pc = IF n = cp.src.size THEN "copystat" ELSE "write",
                         ![DstTmp] = File(n, Now, IF n = cp.src.size THEN cp.src.data
                                                  ELSE "partial")]
  /\ CopyFrame

\* shutil.copy2: the times of the source are set; delete_tmp = True
CopyStat ==
  /\ cp.pc = "copystat"
  /\ cp' = [cp EXCEPT !.pc = "replace", ![DstTmp] = cp.src, !.delete_tmp = TRUE]
  /\ CopyFrame

\* dst_tmp.replace(dst); delete_tmp = False
CopyReplace ==
  /\ cp.pc \in {"replace", "retry_replace"}
  /\ LET moved == [cp EXCEPT !.dst = cp[DstTmp], !.mode = "rw"]
     IN cp' = [moved EXCEPT ![DstTmp] = Absent, !.delete_tmp = FALSE,
                            !.pc = Handler(cp.pc)]
  /\ CopyFrame

\* dst_tmp.replace(dst) raises PermissionError
CopyPermissionError ==
  /\ cp.pc = "replace"
  /\ cp' = [cp EXCEPT !.pc = "retry"]
  /\ CopyFrame

\* lines 731-733: the read flag of dst is tested and dst is made writable
CopyRetry ==
  /\ cp.pc = "retry"
  /\ cp' = IF cp.dst.kind # "file" \/ cp.mode = "w"
           THEN [cp EXCEPT !.pc = "finally", !.raised = "oserror"]
           ELSE [cp EXCEPT !.pc = "retry_replace", !.mode = "w", !.make_readonly = TRUE]
  /\ CopyFrame

\* a call of the file system fails with an OSError
CopyFail ==
  /\ cp.pc \in Calls
  /\ cp' = [cp EXCEPT !.pc = Handler(cp.pc), !.raised = "oserror"]
  /\ CopyFrame

\* a KeyboardInterrupt arrives
CopyInterrupt ==
  /\ cp.pc \in Interruptible
  /\ cp' = [cp EXCEPT !.pc = Handler(cp.pc), !.raised = "interrupt"]
  /\ CopyFrame

\* lines 739-741: dst is made read-only again
CopyInnerFinally ==
  /\ cp.pc = "inner_finally"
  /\ cp' = [cp EXCEPT !.pc = "finally",
                      !.mode = IF cp.make_readonly THEN "r" ELSE cp.mode]
  /\ CopyFrame

\* lines 742-745: the temporary copy is removed when delete_tmp is set
CopyFinally ==
  /\ cp.pc = "finally"
  /\ cp' = [cp EXCEPT !.pc = "done",
                      !.dst_tmp = IF cp.delete_tmp THEN Absent ELSE cp.dst_tmp]
  /\ CopyFrame

NextCopy ==
  \/ CopyCheck
  \/ CopyMkdir
  \/ CopyOpen
  \/ CopyWrite
  \/ CopyStat
  \/ CopyReplace
  \/ CopyPermissionError
  \/ CopyRetry
  \/ CopyFail
  \/ CopyInterrupt
  \/ CopyInnerFinally
  \/ CopyFinally

SpecCopy == InitCopy /\ [][NextCopy]_vars

(***************************************************************************)
(* _move and _delete_empty_dirs on their own, on a tree in which names     *)
(* that differ by case only may be written: the file system of "posix"     *)
(* tells them apart, the file system of "nt" finds one entry for both.     *)
(***************************************************************************)
MaxMoves == 1

MovePaths == {"A", "A/a", "A/b", "a", "a/a", "a/a/a", "a/b", "b"}

\* the values of delete_empty_dirs_under / root
MoveRoots == {Root, "a"}

MoveFaults == { f \in Faults : f.at \in {"mkdir", "replace", "rmdir"} }

\* every file holds its own data, the name under which it was created
MoveTrees ==
  { t \in { MkTree([p \in MovePaths |->
                      CASE k[p] = "file" -> File(1, 1, p)
                        [] k[p] = "dir" -> Dir
                        [] OTHER -> Absent]) :
              k \in [MovePaths -> {"none", "dir", "file"}] } :
      WellFormed(t) /\ (os_name = "nt" => CaseUnique(t)) }

\* PurePath.is_relative_to(root), with the platform's comparison of paths
RECURSIVE IsRelativeTo(_, _)
IsRelativeTo(p, root) ==
  NormCase(p) = NormCase(root) \/ (p # Root /\ IsRelativeTo(Parent(p), root))

\* the node that the file system reaches for the path p: below the node
\* reached for the parent of p, the entry of that name, or, where the file
\* system does not tell the case of names apart, the entry that exists under
\* the name in another case
RECURSIVE Resolve(_, _)
Resolve(fs, p) ==
  IF p = Root THEN Root
  ELSE LET up == Resolve(fs, Parent(p))
           named == { q \in AllPaths : Parent(q) = up /\ Lower(q) = Lower(p) }
           found == { q \in named : Exists(fs, q) }
       IN IF os_name = "nt" /\ found # {} THEN CHOOSE q \in found : TRUE
          ELSE IF p \in named THEN p
          ELSE CHOOSE q \in named : TRUE

\* a walk that goes on to the parent whether the directory is empty or not
StopAtRootOnly(fs, dir, root) == NormCase(dir) = NormCase(root)

\* the test of the while loop of _delete_empty_dirs: the walk ends here
WalkEnds(fs, dir, root) ==
  NormCase(dir) = NormCase(root) \/ Children(fs, Resolve(fs, dir)) # {}

\* the while loop of _delete_empty_dirs(dir, root=root)
RECURSIVE RmdirWalkUnder(_, _, _, _)
RmdirWalkUnder(fs, dir, root, fault) ==
  IF WalkEnds(fs, dir, root) THEN fs
  ELSE IF fault.at = "rmdir" THEN fs
  ELSE RmdirWalkUnder([fs EXCEPT ![Resolve(fs, dir)] = Absent], Parent(dir), root, fault)

\* _delete_empty_dirs(dir, root=root)
DeleteEmptyDirsUnder(fs, dir, root, fault) ==
  IF ~IsDir(fs, Resolve(fs, dir)) THEN [status |-> "valueerror", fs |-> fs]
  ELSE IF ~IsRelativeTo(dir, root) THEN [status |-> "valueerror", fs |-> fs]
  ELSE [status |-> "ok", fs |-> RmdirWalkUnder(fs, dir, root, fault)]

\* _move(src, dst, delete_empty_dirs_under=root), exist_ok left False as
\* every caller leaves it
Move(fs, s, d, root, fault) ==
  IF Exists(fs, Resolve(fs, d)) THEN [status |-> "exists", fs |-> fs]
  ELSE LET mk == MkDirs(fs, Resolve(fs, Parent(d)), fault)
       IN IF ~mk.ok THEN [status |-> "oserror", fs |-> mk.fs]
          ELSE IF ~Exists(mk.fs, Resolve(mk.fs, s)) \/ fault.at = "replace"
            THEN [status |-> "oserror", fs |-> mk.fs]
          ELSE LET from == Resolve(mk.fs, s)
                   to == Resolve(mk.fs, d)
                   moved == [mk.fs EXCEPT ![to] = mk.fs[from], ![from] = Absent]
               IN DeleteEmptyDirsUnder(moved, Parent(s), root, fault)

InitMove ==
  /\ os_name \in {"posix", "nt"}
  /\ srcfs = NoTree
  /\ dstfs \in MoveTrees
  /\ opt = CHOOSE o \in Options(FALSE) : TRUE
  /\ trashfs = NoTree
  /\ InitLocals
  /\ AuxIdle

\* _move(src, dst, delete_empty_dirs_under=root) for a file src
MoveCall ==
  /\ mv.calls < MaxMoves
  /\ \E s \in MovePaths, d \in MovePaths, root \in MoveRoots,
        fault \in {NoFault} \cup MoveFaults :
       /\ IsFile(dstfs, Resolve(dstfs, s))
       /\ LET r == Move(dstfs, s, d, root, fault)
          IN /\ dstfs' = r.fs
             /\ mv' = [call |-> "move", status |-> r.status, src |-> s, dst |-> d,
                       root |-> root, fault |-> fault.at, before |-> dstfs,
                       calls |-> mv.calls + 1]
  /\ UNCHANGED << srcfs, trashfs, opt, pc, runs, src_files, dst_files, gen, results,
                  ended, emitted, applied, dst0, prev, faults >>
  /\ UNCHANGED << filter_vars, cp, intruded, walk, os_name >>

\* _delete_empty_dirs(dir, root=root)
DeleteEmptyDirsCall ==
  /\ mv.calls < MaxMoves
  /\ \E dir \in MovePaths \cup {Root}, root \in MoveRoots,
        fault \in {NoFault} \cup MoveFaults :
       LET r == DeleteEmptyDirsUnder(dstfs, dir, root, fault)
       IN /\ dstfs' = r.fs
          /\ mv' = [call |-> "delete_empty_dirs", status |-> r.status, src |-> dir,
                    dst |-> dir, root |-> root, fault |-> fault.at, before |-> dstfs,
                    calls |-> mv.calls + 1]
  /\ UNCHANGED << srcfs, trashfs, opt, pc, runs, src_files, dst_files, gen, results,
                  ended, emitted, applied, dst0, prev, faults >>
  /\ UNCHANGED << filter_vars, cp, intruded, walk, os_name >>

NextMove == MoveCall \/ DeleteEmptyDirsCall

SpecMove == InitMove /\ [][NextMove]_vars

(***************************************************************************)
(* _scandir on a tree with symbolic links to directories.  The directories *)
(* are the inodes 1..MaxDirs: directory 1 is the root, parent gives the    *)
(* directory that holds each other one under the name of its number, and   *)
(* link gives, for each directory, the directory that its entry "l", a     *)
(* symbolic link, points to (0: no such entry).  One step is one iteration *)
(* of the for loop over direntry_walk.                                     *)
(***************************************************************************)
MaxDirs == 3

LinkDirs == 1..MaxDirs

\* a path longer than this is refused by the file system
MaxDepth == MaxDirs + 1

DirTrees ==
  { p \in [LinkDirs -> 0..MaxDirs] : p[1] = 0 /\ \A d \in LinkDirs \ {1} : p[d] \in 1..(d - 1) }

\* the entries of directory top that are directories or links to
\* directories, as direntry_walk lists them in subdirnames
Subdirs(w, top) ==
  { [path |-> Append(top.path, d), ino |-> d, is_link |-> FALSE] :
      d \in { x \in LinkDirs : w.parent[x] = top.ino } }
    \cup (IF w.link[top.ino] = 0 THEN {}
          ELSE { [path |-> Append(top.path, 0), ino |-> w.link[top.ino], is_link |-> TRUE] })

\* direntry_walk(root, followlinks) descends into a subdirectory that
\* _scandir has left in subdirnames, unless it is a link and followlinks is
\* not set
Descends(w, sub) == (w.follow_symlinks \/ ~sub.is_link) /\ Len(sub.path) <= MaxDepth

\* a set of directories, as a sequence in the order of their paths
RECURSIVE InOrder(_)
InOrder(S) ==
  IF S = {} THEN <<>>
  ELSE LET first == CHOOSE x \in S : \A y \in S : x.path[Len(x.path)] <= y.path[Len(y.path)]
       IN <<first>> \o InOrder(S \ {first})

\* a check that never finds a directory visited
SeenNever(w, inode) == FALSE

\* "if inode in file_list.visited_inodes"
Seen(w, inode) == inode \in w.visited_inodes

\* the call _scandir(root, follow_symlinks=follow), before its first iteration
NewWalk(follow, root_link, parent, link) ==
  [status |-> "running", follow_symlinks |-> follow, root_link |-> root_link,
   parent |-> parent, link |-> link,
   stack |-> << [path |-> <<>>, ino |-> 1, is_link |-> root_link] >>,
   visited_inodes |-> {}, yielded |-> <<>>]

InitLinks ==
  /\ MainIdle
  /\ filter_string = DefaultFilter
  /\ FilterIdle
  /\ cp = NoCopy
  /\ mv = NoMove
  /\ intruded = {}
  /\ \E follow \in BOOLEAN, root_link \in BOOLEAN, parent \in DirTrees,
        link \in [LinkDirs -> 0..MaxDirs] :
       walk = NewWalk(follow, root_link, parent, link)

LinksFrame == UNCHANGED << main, filter_vars, cp, mv, intruded, os_name >>

\* direntry_walk yields the next directory; with follow_symlinks its inode
\* is looked up and recorded; the default filter leaves every subdirectory
\* in subdirnames
WalkYield ==
  /\ walk.status = "running"
  /\ walk.stack # <<>>
  /\ LET top == Head(walk.stack)
     IN IF walk.follow_symlinks /\ Seen(walk, top.ino)
        THEN walk' = [walk EXCEPT !.status = "valueerror",
                                  !.yielded = Append(@, top)]
        ELSE walk' = [walk EXCEPT
                        !.visited_inodes = IF walk.follow_symlinks THEN @ \cup {top.ino} ELSE @,
                        !.yielded = Append(@, top),
                        !.stack = InOrder({ s \in Subdirs(walk, top) : Descends(walk, s) })
                                    \o Tail(@)]
  /\ LinksFrame

\* direntry_walk is exhausted: _scandir returns the file list
WalkReturn ==
  /\ walk.status = "running"
  /\ walk.stack = <<>>
  /\ walk' = [walk EXCEPT !.status = "done"]
  /\ LinksFrame

NextLinks == WalkYield \/ WalkReturn

\* the loop of a call that has been made goes on until it ends
SpecLinks == InitLinks /\ [][NextLinks]_vars /\ WF_vars(NextLinks)

(***************************************************************************)
(* sync() with src_root inside dst_root: src_root is the directory a of    *)
(* dst_root, which sync accepts, the two paths being different.  The tree  *)
(* of the source is then the part of the destination's tree under a, and   *)
(* what an operation does there it does to the source.                     *)
(***************************************************************************)
SrcRoot == "a"

\* the path under dst_root of the path p under src_root
UnderSrc(p) ==
  CASE p = Root -> SrcRoot
    [] p = "a" -> "a/a"
    [] p = "b" -> "a/b"
    [] p = "a/a" -> "a/a/a"
    [] p = "a.tempcopy" -> "a/a.tempcopy"

SrcNodes == {Root, "a", "b", "a/a", "a.tempcopy"}

\* the tree under src_root, given the tree under dst_root
Inside(fs) == [n \in Nodes |-> IF n \in SrcNodes THEN fs[UnderSrc(n)] ELSE Absent]

OuterPaths == {"a", "a/a", "a/b", "a/a/a", "b"}

OuterTrees ==
  { t \in { MkTree(f) : f \in [OuterPaths -> {Absent, Dir} \cup FilesWith("p")] } :
      WellFormed(t) /\ IsDir(t, SrcRoot) }

InitNested ==
  /\ opt \in Options(FALSE)
  /\ dstfs \in OuterTrees
  /\ Entries(dstfs) <= MaxEntries
  /\ srcfs = Inside(dstfs)
  /\ InitCommon

\* the iteration with src_root inside dst_root
StepNested == Iterate /\ srcfs' = Inside(dstfs')

NextNested == Start \/ StepNested \/ Finish

SpecNested == InitNested /\ [][NextNested]_vars

(***************************************************************************)
(* Properties.                                                             *)
(***************************************************************************)
Returned == pc = "idle" /\ runs >= 1

Kinds(seq) == { seq[i].op : i \in 1..Len(seq) }

AllOk == \A i \in 1..Len(applied) : applied[i].status = "ok"

SrcPaths == DOMAIN src_files.relpath_to_stats

DstPaths == DOMAIN dst_files.relpath_to_stats

NoDstNewer ==
  \A p \in SrcPaths \cap DstPaths :
    dst_files.relpath_to_stats[p].mtime <= src_files.relpath_to_stats[p].mtime

Succeeded == Returned /\ ended = "success"

SrcOnly == SrcPaths \ DstPaths

DstOnly == DstPaths \ SrcPaths

Emitted(kind, s, d) ==
  \E i \in 1..Len(emitted) :
    emitted[i].op = kind /\ emitted[i].src = s /\ emitted[i].dst = d

\* a call with a trash root in which no operation failed, reported or not
CleanTrashRun ==
  /\ Succeeded
  /\ opt.trash
  /\ faults = 0
  /\ AllOk
  /\ NoDstNewer

\* C1: after a call with a trash root in which no operation fails and no
\* common path is newer in the destination, a re-scan of the destination
\* finds exactly the files and the directories (empty ones included) of the
\* source snapshot.
C1_Converges ==
  CleanTrashRun =>
    /\ DOMAIN Scandir(dstfs).relpath_to_stats = SrcPaths
    /\ Scandir(dstfs).empty_dirs = src_files.empty_dirs
    /\ DirsOf(dstfs) = DirsOf(srcfs)

Rank(kind) ==
  CASE kind = "D-" -> 0
    [] kind = "R" -> 1
    [] kind = "-" -> 2
    [] kind = "+" -> 3
    [] kind = "U" -> 4
    [] kind = "D+" -> 5

RenameSources ==
  { emitted[i].src : i \in { j \in 1..Len(emitted) : emitted[j].op = "R" } }

\* C3: without a trash root no Delete is emitted, and after the call every
\* destination-only file that was not the source of an emitted Rename is
\* where it was, with the content it had (stated for calls in which nothing
\* fails).
C3_DstOnlyUntouched ==
  (Returned /\ ~opt.trash /\ faults = 0 /\ AllOk) =>
    /\ "-" \notin Kinds(emitted)
    /\ \A p \in DstOnly \ RenameSources : dstfs[p] = dst0[p]

\* what an operation was to achieve has not been achieved
NotAchieved(o) ==
  CASE o.op = "D-" -> IsDir(dstfs, o.src)
    [] o.op = "D+" -> ~IsDir(dstfs, o.dst)
    [] o.op = "-" -> Exists(dstfs, o.src)
    [] o.op = "R" -> Exists(dstfs, o.src) \/ ~Exists(dstfs, o.dst)
    [] OTHER -> dstfs[o.dst] # srcfs[o.src]

CountOf(kind, status) ==
  Cardinality({ i \in 1..Len(applied) :
                  applied[i].op = kind /\ applied[i].status = status })

RECURSIVE SumDeltas(_)
SumDeltas(n) ==
  IF n = 0 THEN 0
  ELSE SumDeltas(n - 1)
         + (IF applied[n].status = "ok" /\ applied[n].op \in {"-", "+", "U"}
              THEN applied[n].byte_diff ELSE 0)

\* C4: an operation whose application fails is counted in the error counter
\* of its kind, with one error summary, leaves the byte delta alone and does
\* not end the call: the operation just applied, if it did not achieve its
\* effect, has the status of a caught error; every counter is the number of
\* applied operations of its kind with that status; the call is still in
\* its loop.
C4_FailuresCounted ==
  /\ \A k \in OpKinds :
       /\ results[ErrorCounter(k)] = CountOf(k, "oserror")
       /\ results[SuccessCounter(k)] = CountOf(k, "ok")
  /\ Len(results.errors) = err_count(results)
  /\ results.byte_diff = SumDeltas(Len(applied))
  /\ Len(applied) > 0 =>
       LET o == applied[Len(applied)]
       IN NotAchieved(o) => o.status = "oserror" /\ (pc = "loop" \/ ended = "success")

\* C5: with dry_run set the destination tree is what it was before the call
\* (its root is not even created), no trash directory is made, every counter
\* and the byte delta of the Results are zero, and the summaries of the
\* whole plan are emitted: one for every source-only file and every
\* source-only empty directory.
C5_DryRunNoChange ==
  /\ dstfs = dst0
  /\ trashfs = NoTree
  /\ \A k \in OpKinds :
       results[SuccessCounter(k)] = 0 /\ results[ErrorCounter(k)] = 0
  /\ results.byte_diff = 0
  /\ results.errors = << >>
  /\ applied = << >>
  /\ Succeeded =>
       /\ \A q \in SrcOnly :
            \E i \in 1..Len(emitted) :
              emitted[i].op \in {"+", "R"} /\ emitted[i].dst = q
       /\ \A d \in src_files.empty_dirs \ dst_files.empty_dirs :
            Emitted("D+", "-", d)

\* C5 witness: a dry run over a destination that holds files, whose plan
\* deletes, creates and has a third operation
C5_Witness ==
  /\ Succeeded
  /\ opt.dry_run
  /\ {"-", "+"} \subseteq Kinds(emitted)
  /\ Len(emitted) >= 3
  /\ FilesOf(dstfs) # {}

\* C6: after a first call that ended successfully and in which no operation
\* failed, a second call on the same trees emits no Create, Update, Rename
\* or Delete and leaves the destination tree as it found it.
C6_Idempotent ==
  (prev.ended = "success" /\ ~prev.failed /\ faults = 0 /\ AllOk) =>
    /\ Kinds(emitted) \cap {"+", "U", "R", "-"} = {}
    /\ dstfs = dst0

SigCount(F, sig) ==
  Cardinality({ p \in DOMAIN F.relpath_to_stats : F.relpath_to_stats[p] = sig })

\* C7: no emitted Rename has a source whose signature is shared by another
\* file of the destination snapshot, or a target whose signature is shared
\* by another file of the source snapshot.
C7_AmbiguityTotal ==
  \A i \in 1..Len(emitted) :
    emitted[i].op = "R" =>
      /\ SigCount(dst_files, dst_files.relpath_to_stats[emitted[i].src]) = 1
      /\ SigCount(src_files, src_files.relpath_to_stats[emitted[i].dst]) = 1

\* the source-only files with the signature of the destination-only file p
Matches(p) ==
  { q \in SrcOnly : src_files.relpath_to_stats[q] = dst_files.relpath_to_stats[p] }

\* p is the only destination-only file with its signature, q the only
\* source-only file with it
UniqueMatch(p, q) ==
  /\ Matches(p) = {q}
  /\ { r \in DstOnly : dst_files.relpath_to_stats[r] = dst_files.relpath_to_stats[p] } = {p}

\* content verification is off, or the trailing bytes of the two files agree
TailsAgree(p, q) ==
  opt.metadata_only \/ LastBytes(srcfs, q) = LastBytes(dst0, p)

Position(kind, path) ==
  CHOOSE i \in 1..Len(emitted) :
    emitted[i].op = kind /\ (emitted[i].src = path \/ emitted[i].dst = path)

\* a destination-only file smaller than the threshold is not renamed; with
\* a trash root it is deleted, and every source-only file with its
\* signature is created, after the Delete
SmallNotRenamed(p) ==
  /\ p \notin RenameSources
  /\ opt.trash => Emitted("-", p, p)
  /\ \A q \in Matches(p) :
       /\ Emitted("+", q, q)
       /\ opt.trash => Position("-", p) < Position("+", q)

\* C8, as stated: at the end of a successful call, every destination-only
\* file of exactly rename_threshold bytes with a unique match is renamed to
\* it; a file one byte smaller is not renamed but deleted, its counterpart
\* created after the Delete; with rename_threshold None there is no Rename.
C8_Threshold ==
  Succeeded =>
    /\ opt.rename_threshold.none => "R" \notin Kinds(emitted)
    /\ ~opt.rename_threshold.none =>
         \A p \in DstOnly :
           LET size == dst_files.relpath_to_stats[p].size
           IN /\ size = opt.rename_threshold.value =>
                   \A q \in SrcOnly : UniqueMatch(p, q) => Emitted("R", p, q)
              /\ size = opt.rename_threshold.value - 1 => SmallNotRenamed(p)

\* C8, amended: the file of exactly rename_threshold bytes is renamed when,
\* in addition, content verification is off or the trailing bytes of the
\* two files agree; otherwise it is not renamed.
C8_ThresholdVerified ==
  Succeeded =>
    /\ opt.rename_threshold.none => "R" \notin Kinds(emitted)
    /\ ~opt.rename_threshold.none =>
         \A p \in DstOnly :
           LET size == dst_files.relpath_to_stats[p].size
           IN /\ size = opt.rename_threshold.value =>
                   \A q \in SrcOnly :
                     UniqueMatch(p, q) => (Emitted("R", p, q) <=> TailsAgree(p, q))
              /\ size = opt.rename_threshold.value - 1 => SmallNotRenamed(p)

\* C8 witness: a file of exactly rename_threshold bytes has been renamed
\* after its trailing bytes were compared
C8_Witness ==
  /\ Succeeded
  /\ ~opt.rename_threshold.none
  /\ ~opt.metadata_only
  /\ \E i \in 1..Len(applied) :
       /\ applied[i].op = "R"
       /\ applied[i].status = "ok"
       /\ dst_files.relpath_to_stats[applied[i].src].size = opt.rename_threshold.value

\* C9: at the end of a successful call, a path of both snapshots has an
\* Update emitted exactly when its source time is greater than its
\* destination time; otherwise no operation names the path and the file of
\* the destination is as it was.
C9_UpdateIffNewer ==
  Succeeded =>
    \A p \in SrcPaths \cap DstPaths :
      LET src_time == src_files.relpath_to_stats[p].mtime
          dst_time == dst_files.relpath_to_stats[p].mtime
      IN /\ Emitted("U", p, p) <=> src_time > dst_time
         /\ src_time <= dst_time =>
              /\ \A i \in 1..Len(emitted) : emitted[i].src # p /\ emitted[i].dst # p
              /\ dstfs[p] = dst0[p]

\* the byte delta an operation is to carry
DeltaOf(o) ==
  CASE o.op = "+" -> src_files.relpath_to_stats[o.src].size
    [] o.op = "U" -> src_files.relpath_to_stats[o.src].size
                       - dst_files.relpath_to_stats[o.dst].size
    [] o.op = "-" -> 0 - dst_files.relpath_to_stats[o.src].size
    [] OTHER -> 0

\* C10: every emitted operation carries the delta of its kind, and at the
\* end of a call (stated for calls in which nothing fails) the byte delta
\* of the Results is the total size of the files of the destination tree
\* after the call minus their total size before it.
C10_ByteAccounting ==
  /\ \A i \in 1..Len(emitted) : emitted[i].byte_diff = DeltaOf(emitted[i])
  /\ (Returned /\ faults = 0 /\ AllOk) =>
       results.byte_diff = TreeBytes(dstfs) - TreeBytes(dst0)

\* the positions of the patterns of a compiled list that match a path
MatchingRules(pats, relpath) ==
  { i \in 1..Len(pats) : Match(pats[i].pattern, 1, relpath, 1) }

FirstOf(S) == CHOOSE i \in S : \A j \in S : i <= j

\* C11: the result of filter(relpath, default) is the action of the first
\* pattern, in the order of the compiled list, that matches the path, whatever
\* later patterns match it; when no pattern matches, the result is the default
\* that was passed.  _scandir passes none (so false): a file that no pattern
\* matches is not in the snapshot.
C11_FirstMatchWins ==
  /\ query.asked =>
       LET M == MatchingRules(filt.patterns, query.relpath)
       IN query.result = IF M = {} THEN query.default
                         ELSE filt.patterns[FirstOf(M)].action
  /\ file_list.status = "ok" =>
       \A p \in file_list.tree.files :
         MatchingRules(NewFilter(filter_string).patterns, p) = {} =>
           p \notin file_list.files

\* a path was put to a filter of which an excluding pattern and a later
\* including pattern match it
C11_Witness ==
  /\ query.asked
  /\ LET M == MatchingRules(filt.patterns, query.relpath)
     IN \E i, j \in M :
          i < j /\ ~filt.patterns[i].action /\ filt.patterns[j].action

\* the rules "- a/b/ + a/", "- a/b/ + a/*" and "- a/b/ + **/*"
Exclude_ab == [action |-> FALSE, pattern |-> <<"a", "b", "">>]

PrecedenceRules == << Exclude_ab, [action |-> TRUE, pattern |-> <<"a", "">>] >>

PrecedenceFiles == << Exclude_ab, [action |-> TRUE, pattern |-> <<"a", "*">>] >>

PrecedenceAll == << Exclude_ab, [action |-> TRUE, pattern |-> <<"**", "*">>] >>

Scanned(rules) ==
  /\ filter_string = rules
  /\ file_list.status = "ok"
  /\ {<<"a", "b", "c.txt">>, <<"a", "d.txt">>} \subseteq file_list.tree.files

\* C12 as stated: with the rules "- a/b/ + a/", a scan of a tree that holds
\* a/b/c.txt and a/d.txt leaves a/b/c.txt out and has a/d.txt in the snapshot.
C12_Precedence ==
  Scanned(PrecedenceRules) =>
    /\ <<"a", "b", "c.txt">> \notin file_list.files
    /\ <<"a", "d.txt">> \in file_list.files

\* C12, amended: with the rules "- a/b/ + a/" the scan leaves a/b/c.txt out
\* and a/d.txt too, because "a/" is a pattern for directories and no pattern
\* matches the file; with a pattern for the files after the exclusion,
\* "- a/b/ + a/*" or "- a/b/ + **/*", a/b/c.txt is left out (the directory
\* a/b/ is not entered, although "**/*" matches the file) and a/d.txt is in
\* the snapshot.
C12_PrecedenceVerified ==
  /\ Scanned(PrecedenceRules) =>
       /\ <<"a", "b", "c.txt">> \notin file_list.files
       /\ <<"a", "d.txt">> \notin file_list.files
  /\ Scanned(PrecedenceFiles) \/ Scanned(PrecedenceAll) =>
       /\ <<"a", "b", "c.txt">> \notin file_list.files
       /\ <<"a", "d.txt">> \in file_list.files
  /\ (filt.status = "ok" /\ query.asked /\ ~query.default
        /\ filter_string \in {PrecedenceRules, PrecedenceFiles, PrecedenceAll}) =>
       /\ query.relpath = <<"a", "b", "">> => ~query.result
       /\ query.relpath = <<"a", "">> => query.result

\* the tree with a/b/c.txt and a/d.txt was scanned with "- a/b/ + a/" after
\* the directory a/b/ had been put to the filter built from these rules
C12_Witness ==
  /\ Scanned(PrecedenceRules)
  /\ query.asked
  /\ query.relpath = <<"a", "b", "">>

\* the components of a pattern as it is written, a leading "./" aside
HasParentDir(pattern) == \E i \in 1..Len(pattern) : pattern[i] = ".."

\* C13: _Filter(filter_string) raises an error when a pattern of the rules has
\* a component ".." (the whole pattern, the first, a middle or the last
\* component) or is an absolute path; no such pattern is in a compiled list.
C13_ParentDirsRejected ==
  filt.status # "none" =>
    /\ (\E i \in 1..Len(filter_string) :
          \/ HasParentDir(filter_string[i].pattern)
          \/ IsAbs(filter_string[i].pattern))
         => filt.status = "valueerror"
    /\ \A k \in 1..Len(filt.patterns) :
         /\ ~HasParentDir(filt.patterns[k].pattern)
         /\ ~IsAbs(filt.patterns[k].pattern)

\* a filter was built from rules one of which begins with the component ".."
C13_Witness ==
  /\ filt.status # "none"
  /\ \E i \in 1..Len(filter_string) : filter_string[i].pattern = <<"..", "a">>

\* C14: when sync ends with an input error (a root that is not a directory,
\* an invalid filter pattern, a negative rename_threshold, a file at the path
\* of the trash root), the destination tree is what it was when sync was
\* called, so the destination root was not created, and the trash root was
\* not created.
C14_InputErrorNoMutation ==
  (pc = "idle" /\ ended = "input_error") =>
    /\ dstfs = dst0
    /\ ~IsDir(trashfs, Root)

\* sync ended with an input error because of a negative rename_threshold
\* or a pattern "..", for a destination root that did not exist
C14_Witness ==
  /\ pc = "idle"
  /\ ended = "input_error"
  /\ LateInputError(opt)
  /\ ~Exists(dst0, Root)

C18_NoTempLeft ==
  (cp.pc = "done" /\ cp.raised = "oserror") =>
    \/ cp.dst_tmp = Absent
    \/ cp.dst_tmp = cp.tmp0

\* a copy failed while shutil.copy2 was writing the temporary file
C18_Witness ==
  /\ cp.pc = "done"
  /\ cp.raised = "oserror"
  /\ ~cp.delete_tmp
  /\ cp.tmp0 = Absent
  /\ cp.dst_tmp # Absent

\* the positions of the emitted operations that name one of the two paths
Touching(ps, pd) ==
  { i \in 1..Len(emitted) :
      emitted[i].src \in {ps, pd} \/ emitted[i].dst \in {ps, pd} }

\* C16: where paths are normalized without regard to case, a source file and
\* a destination file whose paths differ by case only (A/a and a/a) are one
\* entry: when the source file is the newer one, the plan of a call that
\* ends holds exactly one operation that names them, an Update that reads
\* the path of the source as it is spelled there and writes the path of the
\* destination as it is spelled there.
C16_CaseFoldedUpdate ==
  (os_name = "nt" /\ Succeeded) =>
    \A ps \in FilesOf(srcfs), pd \in FilesOf(dst0) :
      (Lower(ps) = Lower(pd) /\ srcfs[ps].mtime > dst0[pd].mtime) =>
        /\ Cardinality(Touching(ps, pd)) = 1
        /\ \A i \in Touching(ps, pd) :
             /\ emitted[i].op = "U"
             /\ emitted[i].src = ps
             /\ emitted[i].dst = pd

\* a call ended whose source held A/a, newer than a/a of the destination
C16_Witness ==
  /\ os_name = "nt"
  /\ Succeeded
  /\ IsFile(srcfs, "A/a")
  /\ IsFile(dst0, "a/a")
  /\ srcfs["A/a"].mtime > dst0["a/a"].mtime
  /\ \E i \in 1..Len(emitted) : emitted[i].op = "U"

\* the applied operations of a kind whose effect is complete: those that
\* returned normally, and the interrupted one if its effect is there
Completed(kind) ==
  { i \in 1..Len(applied) :
      /\ applied[i].op = kind
      /\ \/ applied[i].status = "ok"
         \/ applied[i].status = "interrupted" /\ ~NotAchieved(applied[i]) }

\* C17: when a call is cancelled by an interrupt, it returns its Results, not
\* marked successful; no operation is applied after the interrupt; and every
\* success counter and the byte delta count exactly the operations that were
\* completed before the interrupt: the operation the interrupt met, if it is
\* not counted, has not taken effect.
C17_CleanCancel ==
  ended = "cancelled" =>
    /\ Returned
    /\ ~results.success
    /\ Len(applied) <= Len(emitted)
    /\ \A k \in OpKinds : results[SuccessCounter(k)] = Cardinality(Completed(k))
    /\ \A i \in 1..Len(applied) :
         applied[i].status = "interrupted" => NotAchieved(applied[i])

\* a call was cancelled while its second operation was applied
C17_Witness ==
  /\ ended = "cancelled"
  /\ Len(applied) = 2
  /\ applied[1].status = "ok"
  /\ applied[2].status = "interrupted"

\* the call made was _move(mv.src, mv.dst, delete_empty_dirs_under=mv.root)
Moved == mv.call = "move"

\* d names the entry that s names, written in another case
CaseAlias(fs, s, d) == s # d /\ Resolve(fs, s) = Resolve(fs, d)

\* files other than the moved one are what they were before the call
OthersKept ==
  \A q \in AllPaths :
    (IsFile(mv.before, q) /\ q # Resolve(mv.before, mv.src)) => dstfs[q] = mv.before[q]

\* C19: a move fails with FileExistsError, leaving the tree as it was, if
\* and only if its destination exists and is not a case-different alias of
\* its source; a move to a case-different alias of the source succeeds when
\* no system call fails; a move never overwrites another entry.
C19_MoveFailsIffTaken ==
  Moved =>
    LET alias == CaseAlias(mv.before, mv.src, mv.dst)
        taken == Exists(mv.before, Resolve(mv.before, mv.dst))
    IN /\ (mv.status = "exists") <=> (taken /\ ~alias)
       /\ (mv.status = "exists") => dstfs = mv.before
       /\ (alias /\ mv.fault = "none") => mv.status = "ok"
       /\ OthersKept

\* a move of a file to its own name in another case, where the file system
\* finds one entry for both, has been refused
C19_Witness ==
  /\ Moved
  /\ os_name = "nt"
  /\ CaseAlias(mv.before, mv.src, mv.dst)
  /\ mv.status = "exists"
  /\ dstfs = mv.before

\* the call of _move returned without an exception
MovedOk == Moved /\ mv.status = "ok"

\* a directory and the directories above it
RECURSIVE Upward(_)
Upward(p) == IF p = Root THEN {Root} ELSE {p} \cup Upward(Parent(p))

\* the directory that held the moved file, and the directories above it
WalkDirs == Upward(Parent(Resolve(mv.before, mv.src)))

\* the directories that were there before the call and are gone after it
RemovedDirs == { q \in Nodes : IsDir(mv.before, q) /\ ~Exists(dstfs, q) }

StrictlyUnder(q, root) == IsRelativeTo(q, root) /\ NormCase(q) # NormCase(root)

\* the directories of the walk below q
Below(q) == { x \in WalkDirs : x # q /\ q \in Upward(x) }

\* C20: after a successful move, only directories from the original parent
\* of the file upward and strictly below the root are removed; one of them
\* is removed if and only if it is empty and every directory of the walk
\* below it was removed (the removals succeeding), so that the walk stops
\* at the first directory that is not empty; no directory that still holds
\* an entry is removed, and the moved file is in its new directory.
C20_EmptyParentsRemoved ==
  MovedOk =>
    /\ \A q \in RemovedDirs : q \in WalkDirs /\ StrictlyUnder(q, mv.root)
    /\ WellFormed(dstfs)
    /\ dstfs[Resolve(dstfs, mv.dst)] = mv.before[Resolve(mv.before, mv.src)]
    /\ \A q \in WalkDirs :
         StrictlyUnder(q, mv.root) =>
           /\ q \in RemovedDirs => Below(q) \subseteq RemovedDirs
           /\ (Children(dstfs, q) = {} /\ Below(q) \subseteq RemovedDirs /\ mv.fault # "rmdir")
                => q \in RemovedDirs

\* a move emptied the directory of the file, which was removed, and the walk
\* stopped below the root at the directory above it, which received the file
C20_Witness ==
  /\ MovedOk
  /\ \E q \in RemovedDirs :
       /\ StrictlyUnder(Parent(q), mv.root)
       /\ IsDir(dstfs, Parent(q))
       /\ Parent(Resolve(dstfs, mv.dst)) = Parent(q)

\* the first call of sync() is being made, or has returned
FirstCall == (pc = "loop" /\ runs = 0) \/ (pc = "idle" /\ runs = 1)

\* the directories into which a file was written during the call, before
\* their "D-" operation was applied
Raced == IF FirstCall THEN intruded ELSE {}

\* the "D-" of the directory d was applied and ended with an OSError
DeleteDirFailed(d) ==
  \E i \in 1..Len(applied) :
    applied[i].op = "D-" /\ applied[i].src = d /\ applied[i].status = "oserror"

\* C21: a destination-only empty directory into which content was written
\* after the scan and before its DeleteDir was applied is not removed, and
\* the call does not abort: it goes on to its end, the DeleteDir being
\* reported as a failure, counted in dir_delete_error.
C21_RaceReported ==
  \A d \in Raced :
    /\ IsDir(dstfs, d)
    /\ pc = "idle" =>
         /\ ended = "success"
         /\ DeleteDirFailed(d)
         /\ results.dir_delete_error >= 1

\* a call has returned during which a file appeared in an empty directory
\* that it was about to delete
C21_Witness ==
  /\ pc = "idle"
  /\ \E d \in Raced : IsDir(dstfs, d) /\ Children(dstfs, d) # {}

\* the directories above the last component of a pattern, as they are written
AncestorsOf(pattern) == { SubSeq(pattern, 1, n) : n \in 1..(Len(pattern) - 1) }

\* the directory-only patterns of the ancestors of the include rules 1..n
AncestorPatterns(rules, n) ==
  UNION { { a \o <<"">> : a \in AncestorsOf(StripDot(rules[i].pattern)) } :
            i \in { j \in 1..n : rules[j].action } }

\* the patterns of the rules as they are written, with nothing added
RECURSIVE Explicit(_)
Explicit(rules) ==
  IF rules = <<>> THEN <<>>
  ELSE IF StripDot(rules[1].pattern) = EmptyString THEN Explicit(Tail(rules))
  ELSE <<Compiled(rules[1].action, StripDot(rules[1].pattern))>> \o Explicit(Tail(rules))

\* no pattern of the rules before rule i matches the path
Unclaimed(rules, i, relpath) ==
  MatchingRules(NewFilter(SubSeq(rules, 1, i - 1)).patterns, relpath) = {}

IsDirPath(relpath) == relpath[Len(relpath)] = ""

\* the directories above a file or directory path, written as directory paths
DirsAbove(relpath) ==
  { SubSeq(relpath, 1, n) \o <<"">> :
      n \in 1..(Len(relpath) - (IF IsDirPath(relpath) THEN 2 ELSE 1)) }

\* C22: the compiled list holds, as including directory-only patterns, every
\* ancestor directory of every include pattern; a directory that matches such
\* an ancestor pattern is included unless a pattern of an earlier rule
\* matches it, so that a scan records a file that matches an include rule
\* (no pattern of an earlier rule matching the file or a directory above
\* it) even when a later rule excludes every directory; a directory that no
\* ancestor pattern matches is decided by the rules as they are written.
C22_ImplicitAncestors ==
  /\ filt.status = "ok" =>
       \A a \in AncestorPatterns(filter_string, Len(filter_string)) :
         \E k \in 1..Len(filt.patterns) : filt.patterns[k] = Compiled(TRUE, a)
  /\ (query.asked /\ IsDirPath(query.relpath)) =>
       /\ \A i \in 1..Len(filter_string) :
            ( /\ \E a \in AncestorPatterns(filter_string, i)
                            \ AncestorPatterns(filter_string, i - 1) :
                   Match(a, 1, query.relpath, 1)
              /\ Unclaimed(filter_string, i, query.relpath) )
              => query.result
       /\ (\A a \in AncestorPatterns(filter_string, Len(filter_string)) :
             ~Match(a, 1, query.relpath, 1))
            => query.result = Filter(Explicit(filter_string), query.relpath, query.default)
  /\ file_list.status = "ok" =>
       \A f \in file_list.tree.files :
         (\E i \in 1..Len(filter_string) :
            /\ filter_string[i].action
            /\ Match(StripDot(filter_string[i].pattern), 1, f, 1)
            /\ \A p \in {f} \cup DirsAbove(f) : Unclaimed(filter_string, i, p))
           => f \in file_list.files

\* the tree was scanned with "+ a/b/c.txt - **/*/": a/b/c.txt is in the
\* snapshot, a/d.txt and the empty directory e are not
C22_Witness ==
  /\ filter_string = << [action |-> TRUE, pattern |-> <<"a", "b", "c.txt">>],
                        [action |-> FALSE, pattern |-> <<"**", "*", "">>] >>
  /\ file_list.status = "ok"
  /\ <<"e">> \in file_list.tree.dirs
  /\ file_list.files = {<<"a", "b", "c.txt">>}
  /\ file_list.empty_dirs = {}
  /\ filt.status = "ok"
  /\ query.asked /\ query.relpath = <<"a", "b", "">> /\ query.result /\ ~query.default

\* the patterns with which the scan recorded in file_list was made
ScanPatterns == NewFilter(filter_string).patterns

\* C23: a file of the scanned tree is in the snapshot if and only if the
\* filter includes its relative path, put to it as a file, and includes every
\* directory above it below the root, put to it as a directory: nothing under
\* an excluded directory is recorded, whatever the rules say of it.
C23_FileIffAllIncluded ==
  file_list.status = "ok" =>
    /\ file_list.files \subseteq file_list.tree.files
    /\ \A f \in file_list.tree.files :
         f \in file_list.files <=>
           /\ Filter(ScanPatterns, f, FALSE)
           /\ \A d \in DirsAbove(f) : Filter(ScanPatterns, d, FALSE)

\* a scan has recorded a file of a subdirectory and has left out a file that
\* the filter includes, because a directory above it is excluded
C23_Witness ==
  /\ file_list.status = "ok"
  /\ \E f \in file_list.files : Len(f) = 2
  /\ \E f \in file_list.tree.files :
       /\ Filter(ScanPatterns, f, FALSE)
       /\ f \notin file_list.files

WalkInodes == { walk.yielded[i].ino : i \in 1..Len(walk.yielded) }

\* the directories yielded before the last one are visited once each
FirstVisits ==
  \A i, j \in 1..(Len(walk.yielded) - 1) :
    walk.yielded[i].ino = walk.yielded[j].ino => i = j

\* the directory yielded last is one that was yielded before
LastRevisits ==
  /\ walk.yielded # <<>>
  /\ \E i \in 1..(Len(walk.yielded) - 1) :
       walk.yielded[i].ino = walk.yielded[Len(walk.yielded)].ino

\* the path goes through a symbolic link below the root
ThroughLink(path) == \E i \in 1..Len(path) : path[i] = 0

\* C24: with follow_symlinks the scan raises an error as soon as a directory
\* (an inode) is visited a second time, and not before; without it no
\* directory is scanned through a symbolic link below the root, the root
\* being scanned whether it is a link or not, and no error is raised; every
\* scan comes to its end, whatever cycles the links form.
C24_ScanTerminates ==
  /\ [](walk.status # "none" =>
          /\ FirstVisits
          /\ LastRevisits <=> walk.status = "valueerror"
          /\ walk.status = "valueerror" => walk.follow_symlinks
          /\ ~walk.follow_symlinks =>
               \A i \in 1..Len(walk.yielded) : ~ThroughLink(walk.yielded[i].path)
          /\ walk.status = "done" => 1 \in WalkInodes)
  /\ <>(walk.status \in {"done", "valueerror"})

\* a scan that follows links has ended with the error in a tree whose links
\* form a cycle below the root, after it had scanned two directories
C24_Witness ==
  /\ walk.status = "valueerror"
  /\ walk.follow_symlinks
  /\ Len(walk.yielded) >= 3
  /\ ThroughLink(walk.yielded[Len(walk.yielded)].path)

\* the snapshot gives every key a real name that normalizes to the key, and
\* does not hold the root as an empty directory
SnapshotSound(snapshot) ==
  /\ \A k \in DOMAIN snapshot.relpath_to_stats \cup snapshot.empty_dirs :
       /\ k \in DOMAIN snapshot.real_names
       /\ NormCase(snapshot.real_names[k]) = k
  /\ Root \notin snapshot.empty_dirs
  /\ NormCase(Root) \notin snapshot.empty_dirs

\* C25: in the snapshots of both roots, every key of relpath_to_stats and
\* every member of empty_dirs has an entry in real_names, the entry
\* normalizes to the key, and the root is not among the empty directories.
C25_SnapshotSound == SnapshotSound(src_files) /\ SnapshotSound(dst_files)

\* the source has been scanned with an empty directory whose name is not its
\* key, and the destination with a root that is an empty directory
C25_Witness ==
  /\ pc = "loop"
  /\ \E k \in src_files.empty_dirs : src_files.real_names[k] # k
  /\ IsDir(dst0, Root)
  /\ Children(dst0, Root) = {}
  /\ dst_files.empty_dirs = {}

\* the file that was at p before the call is still at p, or at the target
\* of a Rename of p, or in the trash at p, or has been the target of an
\* Update from a strictly newer file of the source
StillThere(p) ==
  \/ dstfs[p] = dst0[p]
  \/ \E i \in 1..Len(emitted) :
       /\ emitted[i].op = "R"
       /\ emitted[i].src = p
       /\ dstfs[emitted[i].dst] = dst0[p]
  \/ trashfs[p] = dst0[p]
  \/ \E i \in 1..Len(emitted) :
       /\ emitted[i].op = "U"
       /\ emitted[i].dst = p
       /\ srcfs[emitted[i].src].mtime > dst0[p].mtime

\* C26: after a call, whatever succeeded or failed in it, every file that
\* was in the destination before the call is still at its path, or at the
\* target of its Rename, or in the trash under its path, unless it was the
\* target of an Update from a strictly newer source file.
C26_NoFileLost == (Returned /\ ~DryRun(opt)) => \A p \in FilesOf(dst0) : StillThere(p)

\* a call without any failure has ended with a destination file neither at
\* its path nor in the trash, although no operation of the call named it
C26_Witness ==
  /\ Returned
  /\ ~DryRun(opt)
  /\ faults = 0
  /\ AllOk
  /\ \E p \in FilesOf(dst0) :
       /\ ~StillThere(p)
       /\ \A i \in 1..Len(emitted) : p \notin {emitted[i].src, emitted[i].dst}

\* C27: no step of a call changes anything under the source root, whether
\* the two roots are apart or one lies inside the other.
C27_SourceUnchanged == [][srcfs' = srcfs]_vars

\* a call in which no operation failed has ended with the source root gone
C27_Witness ==
  /\ Returned
  /\ ended = "success"
  /\ AllOk
  /\ faults = 0
  /\ applied # <<>>
  /\ ~Exists(srcfs, Root)
  /\ FilesOf(Inside(dst0)) # {}

FileOps == { i \in 1..Len(emitted) : emitted[i].op \in {"R", "-", "+", "U"} }

\* the normalized relative paths that a file operation of the plan consumes:
\* the source of a Rename or a Delete, the target of a Create, a Rename or
\* an Update
Subjects(o) ==
  CASE o.op = "R" -> {NormCase(o.src), NormCase(o.dst)}
    [] o.op = "-" -> {NormCase(o.src)}
    [] OTHER -> {NormCase(o.dst)}

\* C28: in the operations emitted so far no normalized relative path is the
\* subject of two file operations: Rename sources, Delete sources, Create
\* and Rename targets and Update targets are pairwise disjoint, no two
\* Renames share a source or a target, and the paths of a Rename, applied
\* with success or not, are in no Delete and no Create.
C28_OneOperationPerPath ==
  /\ \A i, j \in FileOps : i # j => Subjects(emitted[i]) \cap Subjects(emitted[j]) = {}
  /\ \A i \in FileOps : emitted[i].op = "R" => NormCase(emitted[i].src) # NormCase(emitted[i].dst)

\* a call with a trash root has ended after a Rename that failed when it was
\* applied and a Delete and a Create of other files
C28_Witness ==
  /\ Returned
  /\ opt.trash
  /\ \E i \in 1..Len(applied) : applied[i].op = "R" /\ applied[i].status = "oserror"
  /\ {"-", "+"} \subseteq Kinds(emitted)

\* the six success counters and the six error counters of Results together
CounterSum(r) ==
  r.create_success + r.rename_success + r.update_success + r.delete_success
    + r.dir_create_success + r.dir_delete_success
    + r.create_error + r.rename_error + r.update_error + r.delete_error
    + r.dir_create_error + r.dir_delete_error

\* an operation applied so far has failed: its try block ended with an
\* exception, or the one applied last has left undone what it was to do
OperationFailed ==
  \/ \E i \in 1..Len(applied) : applied[i].status # "ok"
  \/ applied # <<>> /\ NotAchieved(applied[Len(applied)])

\* C29: at every point of a call that is no dry run the twelve counters add
\* up to the number of operations applied so far, err_count is the number
\* of error summaries, and err_count is zero exactly when no operation has
\* failed, so that the result of a call that ends after a failure differs
\* from the result of a call that ends without any.
C29_CountersAccount ==
  ~DryRun(opt) =>
    /\ CounterSum(results) = Len(applied)
    /\ err_count(results) = Len(results.errors)
    /\ err_count(results) = 0 <=> ~OperationFailed

\* a call has ended with success, no error counted and no summary, after a
\* DeleteDir that left its directory in place
C29_Witness ==
  /\ Returned
  /\ ended = "success"
  /\ results.success
  /\ err_count(results) = 0
  /\ results.errors = <<>>
  /\ applied # <<>>
  /\ applied[Len(applied)].op = "D-"
  /\ IsDir(dstfs, applied[Len(applied)].src)

\* the operations that the generator yields from g on when nothing is
\* applied between two of them: the trees stay as they were before the call
RECURSIVE DryPlanFrom(_)
DryPlanFrom(g) ==
  LET next == Operations(g, src_files, dst_files, srcfs, dst0, opt)
  IN IF next.kind = "yield"
       THEN [next EXCEPT !.op = <<next.op>> \o DryPlanFrom(next.gen).op,
                         !.kind = DryPlanFrom(next.gen).kind]
       ELSE [next EXCEPT !.op = <<>>]

\* the plan of a dry run on the snapshots of the call, the two sets of
\* empty directories iterated in the same orders
DryPlan ==
  DryPlanFrom(NewGen(src_files, dst_files, gen.dst_only_empty_dirs,
                     gen.src_only_empty_dirs))

IsPrefix(s, t) == Len(s) <= Len(t) /\ \A i \in 1..Len(s) : s[i] = t[i]

\* C30: the operations emitted so far in a call that applies them are a
\* prefix of the plan of a dry run on the same trees with the same options,
\* and when the call has come to the end of its generator they are that
\* plan, the generator ending as it ends in the dry run.
C30_SamePlanAsDryRun ==
  (~DryRun(opt) /\ (pc = "loop" \/ Returned) /\ ended # "input_error") =>
    /\ IsPrefix(emitted, DryPlan.op)
    /\ ended = "success" => (emitted = DryPlan.op /\ DryPlan.kind = "stop")
    /\ ended = "unexpected_error" => (emitted = DryPlan.op /\ DryPlan.kind = "raise")

\* a call has come to the end of its generator after three operations or
\* more, a DeleteDir and a Rename among them, one of which failed
C30_Witness ==
  /\ Returned
  /\ ~DryRun(opt)
  /\ ended = "success"
  /\ Len(emitted) >= 3
  /\ {"D-", "R"} \subseteq Kinds(emitted)
  /\ \E i \in 1..Len(applied) : applied[i].status # "ok"

====
